---- MODULE Spec2Model ----
(***************************************************************************)
(* Model of the multi-source data aggregation layer of collector-nexus:    *)
(* the DataSourceManager registry (fan-out fetch, sequential fetchById     *)
(* probe, initialization, removal) and the source adapters (HTTP           *)
(* interceptors, pagination, batch and by-id lookups).                     *)
(*                                                                         *)
(* JavaScript runs on a single-threaded event loop: the code between two   *)
(* awaits is one atomic step, and every await is a point where any other   *)
(* pending call may run.  Each action below is one such step.              *)
(***************************************************************************)
EXTENDS Integers, Sequences, FiniteSets, TLC

VARIABLES
    \* ---- DataSourceManager (models/Collection.ts, second unit) ----
    entries,        \* the `sources` Map: its ordered entry list, deleted entries kept as holes
    defaultSource,  \* `defaultSource`: a source id or NoSource (null)
    initialized,    \* `initialized`
    calls,          \* the in-flight and finished manager calls, one record per caller
    emptiedByRemove, \* history: the last registry mutation was a removeSource that emptied it
    \* ---- source adapters ----
    http,           \* one request travelling through an adapter's axios client and its interceptors
    page,           \* the last adapter fetch(): its window, the provider's answer and the FetchResult
    lookup,         \* the last adapter fetchById / getCardById / fetchBatch: inputs and outcome
    limiter,        \* an MTG adapter's rateLimit config, the clock, the delayed and the sent requests
    mtg,            \* MTGSourceManager and MTGService: config, sources Map, default id, sync timer
    srcSync,        \* per MTG source: syncInProgress and the syncAllData runs under way; the last call
    sched,          \* DataAcquisitionService: isInitialized, syncFrequency and live interval timers per source
    \* ---- observation of the registry ----
    reg,            \* history: the last registerSource call, its arguments and the registry before and after
    \* ---- DataAcquisitionService (services/data, bullmq queue 'data-acquisition') ----
    activeSources,  \* the `activeSources` Map: source id -> source object
    syncs,          \* the syncSource calls, one record per caller (a timer tick or an API call)
    jobs,           \* every job ever added to the queue, in order of addition, with its state
    windowCount,    \* per source, the jobs enqueued in the current rate-limit window
    \* ---- DataProcessingService (models/Collection.ts, third unit) ----
    pipeline,       \* the `transformations` and `validationRules` Maps, as the names in Map order
    proc,           \* the processRecord call: its position, what it ran and what it left
    norm,           \* a record under enrichData / normalizeData
    \* ---- DataAcquisitionService.processRecord ----
    record          \* a DataRecord: its metadata and what processRecord did with it

mgrVars == <<entries, defaultSource, initialized, calls, emptiedByRemove>>

\* the MTG adapters and their manager, and the periodic sync timers
mtgVars == <<limiter, mtg, srcSync, sched>>

adapterVars == <<http, page, lookup, mtgVars>>

\* everything outside the DataSourceManager's fields and the adapters
appVars == <<reg, activeSources, syncs, jobs, windowCount, pipeline, proc, norm, record>>

acqVars == <<activeSources, syncs, jobs, windowCount>>

procVars == <<pipeline, proc, norm, record>>

vars == <<entries, defaultSource, initialized, calls, emptiedByRemove, http, page, lookup, limiter, mtg, srcSync, sched, reg,
          activeSources, syncs, jobs, windowCount, pipeline, proc, norm, record>>

----------------------------------------------------------------------------
(* Bounds and small input sets *)

SourceIds == {"A", "B"}
NoSource == "none"
CallIds == {"c1", "c2"}
MaxEntries == 3
MaxSends == 3
MaxItems == 2
MaxTotal == 3
MaxOffset == 2
MaxPage == 2
MaxPageSize == 2
MaxIds == 2
MaxJobs == 2
MaxRuns == 2
MaxRequests == 3
MaxTime == 3
MaxSyncs == 2
MaxTimers == 3

----------------------------------------------------------------------------
(* The `sources` Map.  ECMAScript keeps a Map's entries in insertion order  *)
(* in a list; delete leaves a hole that live iterators step over, set on an *)
(* existing key replaces the value in place.                                *)

LivePositions == {i \in 1..Len(entries) : entries[i].live}

Has(id) == \E i \in LivePositions : entries[i].id = id

\* sources.size
Size(es) == Cardinality({i \in 1..Len(es) : es[i].live})

RECURSIVE LiveIdsFrom(_, _)
LiveIdsFrom(es, i) ==
    IF i > Len(es) THEN <<>>
    ELSE IF es[i].live THEN <<es[i].id>> \o LiveIdsFrom(es, i + 1)
    ELSE LiveIdsFrom(es, i + 1)

\* Array.from(this.sources.values()), as the ids of the adapters in Map order
SourceList(es) == LiveIdsFrom(es, 1)

\* this.sources.keys().next().value
FirstKey(es) == IF SourceList(es) = <<>> THEN NoSource ELSE Head(SourceList(es))

\* (mutant) an iterator that jumps to the last live entry
NextLiveLast(es, i) ==
    IF \E j \in i..Len(es) : es[j].live
    THEN CHOOSE j \in i..Len(es) : es[j].live /\ \A k \in (j + 1)..Len(es) : ~es[k].live
    ELSE 0

\* the Map iterator's next(): the first live entry at or after position i, 0 when exhausted
NextLive(es, i) ==
    IF \E j \in i..Len(es) : es[j].live
    THEN CHOOSE j \in i..Len(es) : es[j].live /\ \A k \in i..(j - 1) : ~es[k].live
    ELSE 0

\* sources.delete(id): the entry becomes a hole
MapDelete(es, id) ==
    [i \in 1..Len(es) |->
        IF es[i].id = id THEN [es[i] EXCEPT !.live = FALSE, !.inits = 0] ELSE es[i]]

IsLive(e) == e.live

\* The holes of the entry list are dropped once no iterator is walking it
\* (cs: the call records), as an engine does when it rehashes the table.
Rehash(es, cs) ==
    IF \E c \in DOMAIN cs : cs[c].pc = "probeWait" THEN es ELSE SelectSeq(es, IsLive)

\* sources.set(id, adapter): a fresh adapter object, never initialized by the manager
MapSet(es, id) ==
    IF \E i \in 1..Len(es) : es[i].live /\ es[i].id = id
    THEN [i \in 1..Len(es) |->
            IF es[i].live /\ es[i].id = id THEN [es[i] EXCEPT !.inits = 0] ELSE es[i]]
    ELSE Append(es, [id |-> id, live |-> TRUE, inits |-> 0])

\* getDefaultSource()
GetDefaultSource ==
    IF defaultSource = NoSource THEN NoSource
    ELSE IF Has(defaultSource) THEN defaultSource ELSE NoSource

----------------------------------------------------------------------------
(* Call records *)

NoResult == [kind |-> "none", list |-> <<>>, source |-> NoSource, code |-> 0]

IdleCall ==
    [op |-> "idle", pc |-> "idle", sid |-> NoSource, targets |-> <<>>, cur |-> 0,
     log |-> <<>>, outs |-> <<>>, res |-> NoResult, unprobed |-> {},
     afterEmptying |-> FALSE]

Free(c) == calls[c].pc \in {"idle", "done"}

Finish(rec, r) == [rec EXCEPT !.pc = "done", !.res = r]

ErrorResult(code) == [kind |-> "error", list |-> <<>>, source |-> NoSource, code |-> code]

\* Only the call that finished last keeps its record: when call c finishes, the
\* records of the calls that finished before it are dropped.
Retire(cs, c) ==
    IF cs[c].pc = "done"
    THEN [d \in DOMAIN cs |-> IF d # c /\ cs[d].pc = "done" THEN IdleCall ELSE cs[d]]
    ELSE cs

\* call c moves to record rec
SetCall(c, rec) == Retire([calls EXCEPT ![c] = rec], c)

----------------------------------------------------------------------------
(* initialize() / ensureInitialized() *)

\* source.initialize() is invoked on every registered adapter
InvokeInitializeAll(es) ==
    [i \in 1..Len(es) |-> IF es[i].live THEN [es[i] EXCEPT !.inits = @ + 1] ELSE es[i]]

\* The synchronous head of a call, up to its first await: initialize() returns
\* at once when the manager is initialized, and otherwise invokes every
\* adapter's initialize() and awaits them all.
EnterCall(c, op, sid) ==
    /\ Free(c)
    /\ IF initialized
       THEN /\ calls' = SetCall(c,
                    IF op = "initialize"
                    THEN Finish([IdleCall EXCEPT !.op = op], [NoResult EXCEPT !.kind = "void"])
                    ELSE [IdleCall EXCEPT !.op = op, !.sid = sid, !.pc = "ready"])
            /\ UNCHANGED entries
       ELSE /\ entries' = InvokeInitializeAll(entries)
            /\ calls' = SetCall(c, [IdleCall EXCEPT !.op = op, !.sid = sid, !.pc = "initWait"])
    /\ UNCHANGED <<defaultSource, initialized, emptiedByRemove>>

Initialize(c) == EnterCall(c, "initialize", NoSource)

\* await Promise.all(initPromises) resumes: every adapter failure was caught
InitDone(c) ==
    /\ calls[c].pc = "initWait"
    /\ initialized' = TRUE
    /\ calls' = SetCall(c,
            IF calls[c].op = "initialize"
            THEN Finish(calls[c], [NoResult EXCEPT !.kind = "void"])
            ELSE [calls[c] EXCEPT !.pc = "ready"])
    /\ UNCHANGED <<entries, defaultSource, emptiedByRemove>>

----------------------------------------------------------------------------
(* registerSource / setDefaultSource / removeSource *)

\* (mutant) setDefaultSource that never assigns
SetDefaultSourceKeep(es, id, old) == old

\* (mutant) setDefaultSource without the sources.has(id) check
SetDefaultSourceUnchecked(es, id, old) == id

\* setDefaultSource(id) against registry es: the new value of defaultSource
SetDefaultSource(es, id, old) ==
    IF \E i \in 1..Len(es) : es[i].live /\ es[i].id = id THEN id ELSE old

\* registerSource(source, setAsDefault): synchronous
RegisterSource(id, setAsDefault) ==
    /\ Has(id) \/ Len(entries) < MaxEntries
    /\ LET es == MapSet(entries, id) IN
        /\ entries' = es
        /\ defaultSource' =
              IF setAsDefault \/ Size(es) = 1
              THEN SetDefaultSource(es, id, defaultSource)
              ELSE defaultSource
    /\ emptiedByRemove' = FALSE
    /\ UNCHANGED <<initialized, calls>>

\* (mutant) the default is left pointing at the removed source
DefaultAfterRemoveNoReset(es, id, old) == old

\* the default after sources.delete(id) left registry es
DefaultAfterRemove(es, id, old) ==
    IF old = id THEN (IF Size(es) > 0 THEN FirstKey(es) ELSE NoSource) ELSE old

\* removeSource(id) up to `await source.close()`
RemoveSourceStart(c, id) ==
    /\ Free(c)
    /\ calls' = SetCall(c,
            IF Has(id)
            THEN [IdleCall EXCEPT !.op = "removeSource", !.sid = id, !.pc = "closeWait"]
            ELSE Finish([IdleCall EXCEPT !.op = "removeSource", !.sid = id],
                        [NoResult EXCEPT !.kind = "false"]))
    /\ UNCHANGED <<entries, defaultSource, initialized, emptiedByRemove>>

\* source.close() settles: the entry is deleted and the default re-chosen, or
\* the rejection is caught and false returned
RemoveSourceDone(c, closeThrew) ==
    /\ calls[c].pc = "closeWait"
    /\ IF closeThrew
       THEN /\ calls' = SetCall(c, Finish(calls[c], [NoResult EXCEPT !.kind = "false"]))
            /\ UNCHANGED <<entries, defaultSource, emptiedByRemove>>
       ELSE LET es == MapDelete(entries, calls[c].sid) IN
            /\ entries' = Rehash(es, calls)
            /\ defaultSource' = DefaultAfterRemove(es, calls[c].sid, defaultSource)
            /\ emptiedByRemove' = (Size(es) = 0)
            /\ calls' = SetCall(c, Finish([calls[c] EXCEPT !.afterEmptying = (Size(es) = 0)],
                                          [NoResult EXCEPT !.kind = "true"]))
    /\ UNCHANGED initialized

----------------------------------------------------------------------------
(* fetch(sourceId?, options) *)

Items == {<<>>, <<"x">>}

\* what an adapter's fetch() may settle to: a FetchResult of its own, or a rejection
FetchValue(s, d) ==
    [data |-> d, total |-> Len(d), limit |-> 0, offset |-> 0, hasMore |-> (d # <<>>),
     source |-> s, error |-> FALSE]

AdapterFetchOutcomes(s) ==
    {[threw |-> FALSE, value |-> FetchValue(s, d)] : d \in Items}
        \cup {[threw |-> TRUE, value |-> FetchValue(s, <<>>)]}

\* (mutant) the rejection handler passes the adapter's value through
FanOutEntryNoCatch(s, out) == out.value

\* source.fetch(options).catch(error => ({data: [], total: 0, limit: options.limit || 0,
\*     offset: options.offset || 0, hasMore: false, source: source.id, error: error.message}))
FanOutEntry(s, out) ==
    IF out.threw
    THEN [data |-> <<>>, total |-> 0, limit |-> 0, offset |-> 0, hasMore |-> FALSE,
          source |-> s, error |-> TRUE]
    ELSE out.value

\* Promise.all(fetchPromises): one entry per adapter, in Map order
FanOutResults(targets, outs) ==
    [i \in 1..Len(targets) |-> FanOutEntry(targets[i], outs[i])]

\* (mutant) a single-source fetch that degrades a failure like the fan-out does
SingleResultDegraded(s, out) ==
    [NoResult EXCEPT !.kind = "list", !.list = <<FanOutEntry(s, out)>>]

\* const result = await source.fetch(options); return [result];
\* a rejection of the adapter's fetch() is not caught
SingleResult(s, out) ==
    IF out.threw THEN ErrorResult(500)
    ELSE [NoResult EXCEPT !.kind = "list", !.list = <<out.value>>]

Fetch(c, sid) == EnterCall(c, "fetch", sid)

\* after `await this.ensureInitialized()`: the adapters' fetch() are invoked
FetchDispatch(c) ==
    /\ calls[c].pc = "ready" /\ calls[c].op = "fetch"
    /\ calls' = SetCall(c,
            IF calls[c].sid # NoSource
            THEN IF Has(calls[c].sid)
                 THEN [calls[c] EXCEPT !.pc = "fetchWait", !.targets = <<calls[c].sid>>]
                 ELSE Finish(calls[c], ErrorResult(404))
            ELSE [calls[c] EXCEPT !.pc = "fetchWait", !.targets = SourceList(entries),
                                  !.afterEmptying = emptiedByRemove])
    /\ UNCHANGED <<entries, defaultSource, initialized, emptiedByRemove>>

\* every adapter's fetch() has settled
FetchSettle(c) ==
    /\ calls[c].pc = "fetchWait"
    /\ \E outs \in [1..Len(calls[c].targets) -> UNION {AdapterFetchOutcomes(s) : s \in SourceIds}] :
        /\ \A i \in 1..Len(calls[c].targets) :
              outs[i] \in AdapterFetchOutcomes(calls[c].targets[i])
        /\ calls' = SetCall(c,
              IF calls[c].sid # NoSource
              THEN Finish([calls[c] EXCEPT !.outs = outs], SingleResult(calls[c].sid, outs[1]))
              ELSE Finish([calls[c] EXCEPT !.outs = outs],
                          [NoResult EXCEPT !.kind = "list",
                                           !.list = FanOutResults(calls[c].targets, outs)]))
    /\ UNCHANGED <<entries, defaultSource, initialized, emptiedByRemove>>

----------------------------------------------------------------------------
(* fetchById(id, sourceId?) *)

ProbeOutcomes == {"hit", "miss", "throw"}

FetchById(c, sid) == EnterCall(c, "fetchById", sid)

ProbedPositions(rec) == {rec.log[i].pos : i \in 1..Len(rec.log)}

\* the loop `for (const [sourceId, source] of this.sources.entries())` from
\* iterator position i on: the next adapter is awaited, or the loop ends and
\* null is returned
ProbeFrom(rec, i) ==
    LET n == NextLive(entries, i) IN
    IF n = 0
    THEN [Finish(rec, [NoResult EXCEPT !.kind = "null"])
            EXCEPT !.unprobed = LivePositions \ ProbedPositions(rec)]
    ELSE [rec EXCEPT !.pc = "probeWait", !.cur = n]

FetchByIdDispatch(c) ==
    /\ calls[c].pc = "ready" /\ calls[c].op = "fetchById"
    /\ calls' = SetCall(c,
            IF calls[c].sid # NoSource
            THEN IF Has(calls[c].sid)
                 THEN [calls[c] EXCEPT !.pc = "byIdWait"]
                 ELSE Finish(calls[c], ErrorResult(404))
            ELSE ProbeFrom(calls[c], 1))
    /\ UNCHANGED <<entries, defaultSource, initialized, emptiedByRemove>>

\* the named adapter's fetchById settles
FetchByIdSettle(c, out) ==
    /\ calls[c].pc = "byIdWait"
    /\ calls' = SetCall(c,
            LET rec == [calls[c] EXCEPT !.log = <<[src |-> calls[c].sid, pos |-> 0, out |-> out]>>] IN
            CASE out = "hit" -> Finish(rec, [NoResult EXCEPT !.kind = "item", !.source = calls[c].sid])
              [] out = "miss" -> Finish(rec, [NoResult EXCEPT !.kind = "null"])
              [] OTHER -> Finish(rec, ErrorResult(500)))
    /\ UNCHANGED <<entries, defaultSource, initialized, emptiedByRemove>>

\* the probed adapter's fetchById settles: a truthy item is returned, a null or
\* a caught rejection moves the loop to the next Map entry
ProbeSettle(c, out) ==
    /\ calls[c].pc = "probeWait"
    /\ LET pos == calls[c].cur
           src == entries[pos].id
           rec == [calls[c] EXCEPT !.log = Append(@, [src |-> src, pos |-> pos, out |-> out])]
       IN calls' = SetCall(c,
            IF out = "hit"
            THEN [Finish(rec, [NoResult EXCEPT !.kind = "item", !.source = src])
                    EXCEPT !.unprobed = {i \in LivePositions : i < pos} \ ProbedPositions(rec)]
            ELSE ProbeFrom(rec, pos + 1))
    /\ entries' = Rehash(entries, calls')
    /\ UNCHANGED <<defaultSource, initialized, emptiedByRemove>>

----------------------------------------------------------------------------
(* The manager as a state machine *)

InitMgr ==
    /\ entries = <<>>
    /\ defaultSource = NoSource
    /\ initialized = FALSE
    /\ calls = [c \in CallIds |-> IdleCall]
    /\ emptiedByRemove = FALSE

\* registry mutation and initialization, shared by every specification of the manager
NextRegistry ==
    \/ \E id \in SourceIds, d \in BOOLEAN : RegisterSource(id, d)
    \/ \E c \in CallIds, id \in SourceIds : RemoveSourceStart(c, id)
    \/ \E c \in CallIds, t \in BOOLEAN : RemoveSourceDone(c, t)
    \/ \E c \in CallIds : Initialize(c)
    \/ \E c \in CallIds : InitDone(c)

\* fetch() reads the registry and writes nothing shared, so it is left out of
\* the specification of fetchById, and fetchById out of that of fetch
NextFanOut ==
    /\ UNCHANGED <<adapterVars, appVars>>
    /\ \/ NextRegistry
       \/ \E c \in CallIds, sid \in SourceIds \cup {NoSource} : Fetch(c, sid)
       \/ \E c \in CallIds : FetchDispatch(c)
       \/ \E c \in CallIds : FetchSettle(c)

NextProbe ==
    /\ UNCHANGED <<adapterVars, appVars>>
    /\ \/ NextRegistry
       \/ \E c \in CallIds, sid \in SourceIds \cup {NoSource} : FetchById(c, sid)
       \/ \E c \in CallIds : FetchByIdDispatch(c)
       \/ \E c \in CallIds, o \in ProbeOutcomes : FetchByIdSettle(c, o)
       \/ \E c \in CallIds, o \in ProbeOutcomes : ProbeSettle(c, o)

----------------------------------------------------------------------------
(* close() *)

\* (mutant) a close promise without its rejection handler
CloseEntryNoCatch(s, threw) == IF threw THEN "rejected" ELSE "fulfilled"

\* source.close().catch(error => logger.error(...)): the promise of one adapter
CloseEntry(s, threw) == "fulfilled"

\* close() up to `await Promise.all(closePromises)`: close() is invoked on
\* every adapter of the registry
CloseStart(c) ==
    /\ Free(c)
    /\ calls' = SetCall(c, [IdleCall EXCEPT !.op = "close", !.pc = "closeAllWait",
                                             !.targets = SourceList(entries)])
    /\ UNCHANGED <<entries, defaultSource, initialized, emptiedByRemove>>

\* sources.clear()
MapClear(es, cs) == Rehash([i \in 1..Len(es) |-> [es[i] EXCEPT !.live = FALSE, !.inits = 0]], cs)

\* every adapter's close() has settled (threw[i]: the i-th one rejected);
\* Promise.all over the handled promises, then the registry is reset
CloseSettle(c, threw) ==
    /\ calls[c].pc = "closeAllWait"
    /\ DOMAIN threw = 1..Len(calls[c].targets)
    /\ LET settled == [i \in 1..Len(threw) |-> CloseEntry(calls[c].targets[i], threw[i])]
           rec == [calls[c] EXCEPT !.outs = threw]
       IN IF \E i \in 1..Len(settled) : settled[i] = "rejected"
          THEN /\ calls' = SetCall(c, Finish(rec, ErrorResult(500)))
               /\ UNCHANGED <<entries, defaultSource, initialized, emptiedByRemove>>
          ELSE /\ calls' = SetCall(c, Finish(rec, [NoResult EXCEPT !.kind = "void"]))
               /\ entries' = MapClear(entries, calls')
               /\ defaultSource' = NoSource
               /\ initialized' = FALSE
               /\ emptiedByRemove' = FALSE

\* the possible outcomes of the close() calls of n adapters
CloseOutcomes(n) == [1..n -> BOOLEAN]

----------------------------------------------------------------------------
(* getStatus() *)

AdapterStatuses == {"ok", "unavailable", "throw"}

\* (mutant) a status entry without the try/catch
StatusEntryNoCatch(id, out) == [id |-> id, status |-> out]

\* async ([id, source]) => { try { return {id, ...await source.getStatus()} }
\*                          catch (error) { return {id, status: 'error', ...} } }
StatusEntry(id, out) == [id |-> id, status |-> IF out = "throw" THEN "error" ELSE out]

\* getStatus() up to `await Promise.all(statusPromises)`
GetStatusStart(c) ==
    /\ Free(c)
    /\ calls' = SetCall(c, [IdleCall EXCEPT !.op = "getStatus", !.pc = "statusWait",
                                             !.targets = SourceList(entries)])
    /\ UNCHANGED <<entries, defaultSource, initialized, emptiedByRemove>>

\* every adapter's getStatus() has settled: {timestamp, sources: statuses,
\* defaultSource: this.defaultSource}
GetStatusSettle(c, outs) ==
    /\ calls[c].pc = "statusWait"
    /\ DOMAIN outs = 1..Len(calls[c].targets)
    /\ LET entriesOut == [i \in 1..Len(outs) |-> StatusEntry(calls[c].targets[i], outs[i])]
           rec == [calls[c] EXCEPT !.outs = outs]
       IN calls' = SetCall(c,
            IF \E i \in 1..Len(outs) : entriesOut[i].status = "throw"
            THEN Finish(rec, ErrorResult(500))
            ELSE Finish(rec, [NoResult EXCEPT !.kind = "status", !.list = entriesOut,
                                              !.source = defaultSource]))
    /\ UNCHANGED <<entries, defaultSource, initialized, emptiedByRemove>>

StatusOutcomes(n) == [1..n -> AdapterStatuses]

----------------------------------------------------------------------------
(* setDefaultSource(id) called on its own: synchronous, returns whether the *)
(* id is registered                                                         *)

SetDefaultSourceCall(c, id) ==
    /\ Free(c)
    /\ defaultSource' = SetDefaultSource(entries, id, defaultSource)
    /\ calls' = SetCall(c, Finish([IdleCall EXCEPT !.op = "setDefaultSource", !.sid = id],
                                  [NoResult EXCEPT !.kind = IF Has(id) THEN "true" ELSE "false"]))
    /\ UNCHANGED <<entries, initialized, emptiedByRemove>>

\* every operation that writes the registry or the default, close() included
NextDefault ==
    /\ UNCHANGED <<adapterVars, appVars>>
    /\ \/ NextRegistry
       \/ \E c \in CallIds, id \in SourceIds : SetDefaultSourceCall(c, id)
       \/ \E c \in CallIds : CloseStart(c)
       \/ \E c \in CallIds, n \in 0..MaxEntries : \E t \in CloseOutcomes(n) : CloseSettle(c, t)

----------------------------------------------------------------------------
(* registerSource observed: the arguments of the last call and the registry *)
(* before and after it                                                      *)

\* how often the manager has initialized the adapter stored under id (0 for an
\* adapter object the manager has never touched)
InitsOf(es, id) ==
    IF \E i \in 1..Len(es) : es[i].live /\ es[i].id = id
    THEN (CHOOSE e \in {es[i] : i \in {j \in 1..Len(es) : es[j].live /\ es[j].id = id}} : TRUE).inits
    ELSE 0

NoRegistration ==
    [id |-> NoSource, setAsDefault |-> FALSE, hadBefore |-> FALSE, sizeBefore |-> 0,
     defaultBefore |-> NoSource, initsBefore |-> 0, hasAfter |-> FALSE, sizeAfter |-> 0,
     defaultAfter |-> NoSource, initsAfter |-> 0]

\* registerSource(source, setAsDefault) with what it found and what it left
RegisterObserved(id, setAsDefault) ==
    /\ RegisterSource(id, setAsDefault)
    /\ reg' = [id |-> id, setAsDefault |-> setAsDefault, hadBefore |-> Has(id),
               sizeBefore |-> Size(entries), defaultBefore |-> defaultSource,
               initsBefore |-> InitsOf(entries, id),
               hasAfter |-> (\E i \in 1..Len(entries') : entries'[i].live /\ entries'[i].id = id),
               sizeAfter |-> Size(entries'), defaultAfter |-> defaultSource',
               initsAfter |-> InitsOf(entries', id)]

InitRegistration == reg = NoRegistration

\* the lifecycle of the registry: registration, removal, initialization
NextLifecycle ==
    /\ UNCHANGED <<adapterVars, acqVars, procVars>>
    /\ \/ \E id \in SourceIds, d \in BOOLEAN : RegisterObserved(id, d)
       \/ /\ UNCHANGED reg
          /\ \/ \E c \in CallIds, id \in SourceIds : RemoveSourceStart(c, id)
             \/ \E c \in CallIds, t \in BOOLEAN : RemoveSourceDone(c, t)
             \/ \E c \in CallIds : Initialize(c)
             \/ \E c \in CallIds : InitDone(c)

\* close() next to registration, removal and initialization
NextClose ==
    /\ UNCHANGED <<adapterVars, appVars>>
    /\ \/ NextRegistry
       \/ \E c \in CallIds : CloseStart(c)
       \/ \E c \in CallIds, n \in 0..MaxEntries : \E t \in CloseOutcomes(n) : CloseSettle(c, t)

\* getStatus() next to registration, removal and initialization
NextStatus ==
    /\ UNCHANGED <<adapterVars, appVars>>
    /\ \/ NextRegistry
       \/ \E c \in CallIds : GetStatusStart(c)
       \/ \E c \in CallIds, n \in 0..MaxEntries : \E o \in StatusOutcomes(n) : GetStatusSettle(c, o)

----------------------------------------------------------------------------
(* An adapter's HTTP client: axios with the adapter's request and response  *)
(* interceptors.  A retry issued by a response interceptor goes through     *)
(* this.client again, hence through the same interceptors.                  *)

Clients == {"ebay", "cardtrader", "scryfall", "mtgjson", "apiclient"}
Statuses == {200, 401, 404, 429, 500}
Absent == -1
RetryAfterValues == {Absent, 1, 2}

\* retryAfter ? parseInt(retryAfter, 10) * 1000 : 60000, in seconds
EbayDefaultRetryAfter == 60
EbayRetryDelay(ra) == IF ra = Absent THEN EbayDefaultRetryAfter ELSE ra

\* (error.response.headers['retry-after'] || 1) * 1000, in seconds
ApiClientDefaultRetryAfter == 1
ApiClientRetryDelay(ra) == IF ra = Absent THEN ApiClientDefaultRetryAfter ELSE ra

IdleHttp(fresh) ==
    [client |-> "none", pc |-> "idle", sends |-> 0, auths |-> 0, statuses |-> <<>>,
     waited |-> <<>>, authFailed |-> FALSE, tokenFresh |-> fresh]

\* the request interceptors of the client, run for every send (first or retry):
\* CardTrader awaits ensureAuthenticated() and rateLimitDelay(), Scryfall and
\* MTGJSON await rateLimitDelay(), eBay and ApiClient run synchronously
RequestInterceptors(h) ==
    CASE h.client = "cardtrader" ->
            IF h.tokenFresh THEN [h EXCEPT !.pc = "delay"] ELSE [h EXCEPT !.pc = "authWait"]
      [] h.client \in {"scryfall", "mtgjson"} -> [h EXCEPT !.pc = "delay"]
      [] OTHER -> [h EXCEPT !.pc = "inflight", !.sends = @ + 1]

\* which pc follows a 401 answer: only eBay's response interceptor handles it
On401(client) == IF client = "ebay" THEN "reauth" ELSE "rejected"

\* which pc follows a 429 answer: eBay's and ApiClient's response interceptors sleep and retry
On429(client) == IF client \in {"ebay", "apiclient"} THEN "sleep" ELSE "rejected"

\* this.client.get / post / request
HttpRequest(cl) ==
    /\ http.pc \in {"idle", "resolved", "rejected"}
    /\ http' = RequestInterceptors([IdleHttp(http.tokenFresh) EXCEPT !.client = cl])
    /\ UNCHANGED <<mgrVars, appVars, page, lookup, mtgVars>>

\* the token request of ensureAuthenticated() (CardTrader, before the send) or
\* of authenticate() (eBay, after a 401) settles
HttpAuthSettle(ok) ==
    /\ http.pc \in {"authWait", "reauth"}
    /\ IF ~ok
       THEN http' = [http EXCEPT !.pc = "rejected", !.authFailed = TRUE]
       ELSE IF http.pc = "authWait"
            THEN http' = [http EXCEPT !.pc = "delay", !.auths = @ + 1, !.tokenFresh = TRUE]
            ELSE /\ http.sends < MaxSends
                 /\ http' = RequestInterceptors([http EXCEPT !.auths = @ + 1, !.tokenFresh = TRUE])
    /\ UNCHANGED <<mgrVars, appVars, page, lookup, mtgVars>>

\* rateLimitDelay() elapses and the request is sent
HttpDelayDone ==
    /\ http.pc = "delay"
    /\ http.sends < MaxSends
    /\ http' = [http EXCEPT !.pc = "inflight", !.sends = @ + 1]
    /\ UNCHANGED <<mgrVars, appVars, page, lookup, mtgVars>>

\* the provider answers the request in flight; the response interceptors run
HttpRespond(st, ra) ==
    /\ http.pc = "inflight"
    /\ (st # 429) => ra = Absent
    /\ LET h == [http EXCEPT !.statuses = Append(@, st)] IN
       http' =
         CASE st = 200 -> [h EXCEPT !.pc = "resolved"]
           [] st = 429 ->
                [h EXCEPT !.pc = On429(h.client),
                          !.waited = IF On429(h.client) # "sleep" THEN @
                                     ELSE IF h.client = "ebay"
                                          THEN Append(@, EbayRetryDelay(ra))
                                          ELSE Append(@, ApiClientRetryDelay(ra))]
           [] st = 401 -> [h EXCEPT !.pc = On401(h.client)]
           [] OTHER -> [h EXCEPT !.pc = "rejected"]
    /\ UNCHANGED <<mgrVars, appVars, page, lookup, mtgVars>>

\* the retry-after sleep elapses: return this.client.request(error.config)
HttpSleepDone ==
    /\ http.pc = "sleep"
    /\ http.sends < MaxSends
    /\ http' = RequestInterceptors(http)
    /\ UNCHANGED <<mgrVars, appVars, page, lookup, mtgVars>>

\* time passes until the token the adapter holds is within 60s of expiry
TokenExpires ==
    /\ http.tokenFresh
    /\ http.pc \in {"idle", "resolved", "rejected"}
    /\ http' = [http EXCEPT !.tokenFresh = FALSE]
    /\ UNCHANGED <<mgrVars, appVars, page, lookup, mtgVars>>

InitHttp == http = IdleHttp(FALSE)

NextHttp ==
    \/ \E cl \in Clients : HttpRequest(cl)
    \/ \E ok \in BOOLEAN : HttpAuthSettle(ok)
    \/ HttpDelayDone
    \/ \E st \in Statuses, ra \in RetryAfterValues : HttpRespond(st, ra)
    \/ HttpSleepDone
    \/ TokenExpires

----------------------------------------------------------------------------
(* BaseMTGSource.rateLimitDelay(): the request interceptors of the Scryfall, *)
(* MTGJSON and CardTrader clients await it before every send.  Time is       *)
(* counted in ticks; a timer fires at the tick it was set for.               *)

\* ticks per second (the code counts 1000 ms per second)
TicksPerSecond == 2

\* config.rateLimit: {requests, perSeconds}
RateLimits == {[requests |-> r, perSeconds |-> p] : r \in 1..2, p \in 1..2}

\* const delay = (perSeconds * 1000) / requests
RateLimitDelay(rl) == (rl.perSeconds * TicksPerSecond) \div rl.requests

NewLimiter(rl) == [rateLimit |-> rl, now |-> 0, pending |-> <<>>, sent |-> <<>>]

\* an adapter is constructed with config.rateLimit = rl
ConstructSource(rl) ==
    /\ limiter # NewLimiter(rl)
    /\ limiter' = NewLimiter(rl)

\* a caller issues a request: the interceptor sets a timer of `delay` from now
\* and awaits it, whatever other requests are waiting or were just sent
RateLimitedRequest ==
    /\ Len(limiter.pending) + Len(limiter.sent) < MaxRequests
    /\ limiter' = [limiter EXCEPT !.pending = Append(@, limiter.now + RateLimitDelay(limiter.rateLimit))]

\* the timer of the oldest waiting request fires: the request is sent
RateLimitDelayElapsed ==
    /\ limiter.pending # <<>>
    /\ Head(limiter.pending) <= limiter.now
    /\ limiter' = [limiter EXCEPT !.pending = Tail(@), !.sent = Append(@, limiter.now)]

\* time passes, once every timer that is due has fired
Tick ==
    /\ limiter.now < MaxTime
    /\ \A k \in 1..Len(limiter.pending) : limiter.pending[k] > limiter.now
    /\ limiter' = [limiter EXCEPT !.now = @ + 1]

InitLimiter == limiter = NewLimiter([requests |-> 2, perSeconds |-> 1])

NextLimiter ==
    /\ UNCHANGED <<mgrVars, appVars, http, page, lookup, mtg, srcSync, sched>>
    /\ \/ \E rl \in RateLimits : ConstructSource(rl)
       \/ RateLimitedRequest
       \/ RateLimitDelayElapsed
       \/ Tick

----------------------------------------------------------------------------
(* MTGSourceManager (mtg.manager.ts) and MTGService.  The manager's          *)
(* constructor calls the async initializeSources(config) without awaiting    *)
(* it and then setDefaultSource; MTGService.initialize() adds its sources to *)
(* the singleton manager, which was constructed with an empty config.        *)

\* the sources in the order in which startup initializes them
MtgSourceIds == <<"scryfall", "mtgjson", "cardtrader">>

\* a source of the config: off, enabled without credentials, enabled with them
\* (Scryfall and MTGJSON need none)
MtgConfigs ==
    [scryfall : BOOLEAN, mtgjson : BOOLEAN, cardtrader : {"off", "nocreds", "creds"},
     defaultSource : {NoSource, "scryfall", "mtgjson", "cardtrader"}]

\* new MTGSourceManager({}): config.sources missing
EmptyMtgConfig ==
    [scryfall |-> TRUE, mtgjson |-> TRUE, cardtrader |-> "off", defaultSource |-> NoSource]

\* whether startup constructs source s and awaits its initialize():
\* initializeSources skips CardTrader without clientId/clientSecret,
\* MTGService.initialize only asks isSourceEnabled
Attempted(cfg, via, s) ==
    CASE s = "scryfall" -> cfg.scryfall
      [] s = "mtgjson" -> cfg.mtgjson
      [] OTHER -> IF via = "constructor" THEN cfg.cardtrader = "creds" ELSE cfg.cardtrader # "off"

StartupSources(cfg, via) == SelectSeq(MtgSourceIds, LAMBDA s : Attempted(cfg, via, s))

\* the outcomes of source.initialize(): Scryfall's and MTGJSON's only log,
\* CardTrader's requests a token, which fails without credentials
InitializeOutcomes(cfg, s) ==
    IF s = "cardtrader" THEN (IF cfg.cardtrader = "creds" THEN BOOLEAN ELSE {FALSE}) ELSE {TRUE}

\* setDefaultSource(sourceId) of the MTG manager
MtgSetDefaultSource(sources, sourceId, old) ==
    IF \E k \in 1..Len(sources) : sources[k] = sourceId THEN sourceId ELSE old

\* stopSync()
StopSyncOf(m) ==
    IF m.syncTimer THEN [m EXCEPT !.timers = @ - 1, !.syncTimer = FALSE] ELSE m

\* startSync(interval) with interval > 0: stopSync(), an immediate run, setInterval
StartSyncOf(m) == [StopSyncOf(m) EXCEPT !.timers = @ + 1, !.syncTimer = TRUE]

NoManager ==
    [pc |-> "none", via |-> "none", cfg |-> EmptyMtgConfig, todo |-> <<>>, sources |-> <<>>,
     defaultSourceId |-> "scryfall", timers |-> 0, syncTimer |-> FALSE,
     svcInitialized |-> FALSE, failedInit |-> NoSource]

\* sources.set(id, source) on the manager's Map
MtgMapSet(sources, id) ==
    IF \E k \in 1..Len(sources) : sources[k] = id THEN sources ELSE Append(sources, id)

\* startup has nothing left to await: initializeSources starts the sync when a
\* source is registered; MTGService.initialize starts it and marks itself initialized
FinishStartup(m) ==
    IF m.via = "constructor"
    THEN [(IF m.sources # <<>> THEN StartSyncOf(m) ELSE m) EXCEPT !.pc = "ready"]
    ELSE [StartSyncOf(m) EXCEPT !.pc = "ready", !.svcInitialized = TRUE]

\* new MTGSourceManager(config): initializeSources runs up to its first await,
\* then setDefaultSource(config.defaultSource || 'scryfall') runs
NewManager(cfg) ==
    /\ mtg.pc = "none"
    /\ LET started == [NoManager EXCEPT !.via = "constructor", !.cfg = cfg,
                                        !.todo = StartupSources(cfg, "constructor"), !.pc = "initWait"]
           atAwait == IF started.todo = <<>> THEN FinishStartup(started) ELSE started
       IN mtg' = [atAwait EXCEPT !.defaultSourceId =
                     MtgSetDefaultSource(atAwait.sources,
                         IF cfg.defaultSource = NoSource THEN "scryfall" ELSE cfg.defaultSource, @)]

\* MTGService.initialize() with the environment's config env, on the manager
\* the module exported: up to the first addSource's `await source.initialize()`
ServiceInitialize(env) ==
    /\ mtg.pc = "ready" /\ mtg.via = "constructor" /\ mtg.cfg = EmptyMtgConfig
    /\ LET started == [mtg EXCEPT !.via = "service", !.cfg = env,
                                  !.todo = StartupSources(env, "service"), !.pc = "initWait"]
       IN mtg' = IF started.todo = <<>> THEN FinishStartup(started) ELSE started

\* `await source.initialize()` settles for the source startup is at: the
\* source is registered (addSource also makes it the default when it is the
\* configured one) and startup goes on, or the rejection ends startup
InitializeSettle(ok) ==
    /\ mtg.pc = "initWait"
    /\ ok \in InitializeOutcomes(mtg.cfg, Head(mtg.todo))
    /\ LET s == Head(mtg.todo)
           registered == [mtg EXCEPT !.sources = MtgMapSet(@, s), !.todo = Tail(@),
                                     !.defaultSourceId =
                                        IF mtg.via = "service" /\ mtg.cfg.defaultSource = s
                                        THEN s ELSE @]
       IN mtg' = IF ~ok THEN [mtg EXCEPT !.pc = "failed", !.failedInit = s]
                 ELSE IF registered.todo = <<>> THEN FinishStartup(registered)
                 ELSE registered

InitMtg == mtg = NoManager

NextMtgStartup ==
    /\ UNCHANGED <<mgrVars, appVars, http, page, lookup, limiter, srcSync, sched>>
    /\ \/ \E cfg \in MtgConfigs : NewManager(cfg)
       \/ \E env \in MtgConfigs : ServiceInitialize(env)
       \/ \E ok \in BOOLEAN : InitializeSettle(ok)

----------------------------------------------------------------------------
(* source.syncAllData(): BaseMTGSource guards it with syncInProgress;        *)
(* ScryfallSource and MTGJSONSource override it, CardTraderSource inherits.  *)
(* The callers are the manager's scheduled runs and manual triggers.         *)

MtgSources == {MtgSourceIds[k] : k \in 1..Len(MtgSourceIds)}

OverridesSyncAllData(s) == s \in {"scryfall", "mtgjson"}

NoSyncCall == [source |-> NoSource, result |-> "none"]

\* source.syncAllData() up to its first await
SourceSyncAllData(s) ==
    IF ~OverridesSyncAllData(s) /\ srcSync.syncInProgress[s]
    THEN srcSync' = [srcSync EXCEPT !.last = [source |-> s, result |-> "refused"]]
    ELSE /\ srcSync.running[s] < MaxSyncs
         /\ srcSync' = [srcSync EXCEPT !.running[s] = @ + 1,
                                       !.syncInProgress[s] = IF OverridesSyncAllData(s) THEN @ ELSE TRUE,
                                       !.last = [source |-> s, result |-> "started"]]

\* a running syncAllData ends, its steps having succeeded or thrown: the error
\* is caught and reported in the result; the base class clears syncInProgress
\* in its finally block
SourceSyncEnds(s, threw) ==
    /\ srcSync.running[s] > 0
    /\ srcSync' = [srcSync EXCEPT !.running[s] = @ - 1,
                                  !.syncInProgress[s] = IF OverridesSyncAllData(s) THEN @ ELSE FALSE,
                                  !.last = [source |-> s,
                                            result |-> IF threw THEN "failure" ELSE "success"]]

InitSrcSync ==
    srcSync = [syncInProgress |-> [s \in MtgSources |-> FALSE], running |-> [s \in MtgSources |-> 0],
               last |-> NoSyncCall]

NextSrcSync ==
    /\ UNCHANGED <<mgrVars, appVars, http, page, lookup, limiter, mtg, sched>>
    /\ \/ \E s \in MtgSources : SourceSyncAllData(s)
       \/ \E s \in MtgSources, t \in BOOLEAN : SourceSyncEnds(s, t)

----------------------------------------------------------------------------
(* Adapter fetch(): the FetchResult built from the provider's answer.       *)
(* A window is (offset, limit) for eBay and (page, pageSize) for the MTG    *)
(* adapters, whose offset is (page - 1) * pageSize.                         *)

Min(a, b) == IF a < b THEN a ELSE b
Max(a, b) == IF a > b THEN a ELSE b

NoPage == [adapter |-> "none", offset |-> 0, returned |-> 0, total |-> 0, hasMore |-> FALSE]

PageResult(ad, off, n, tot, more) ==
    [adapter |-> ad, offset |-> off, returned |-> n, total |-> tot, hasMore |-> more]

\* EbaySource.transformSearchResponse: n item summaries, response.total (Absent: missing)
EbayFetchResult(off, n, tot) ==
    LET total == IF tot = Absent THEN 0 ELSE tot
    IN  PageResult("ebay", off, n, total, (off + n) < total)

\* ScryfallSource.fetch: total_cards and has_more are taken from the answer as they are
ScryfallFetchResult(pg, size, n, tot, more) ==
    PageResult("scryfall", (pg - 1) * size, n, IF tot = Absent THEN 0 ELSE tot, more)

\* MTGJSONSource.fetch: cards.slice(start, start + pageSize) of the m filtered cards
MtgjsonFetchResult(pg, size, m) ==
    LET start == (pg - 1) * size
    IN  PageResult("mtgjson", start, Max(0, Min(size, m - start)), m, start + size < m)

\* CardTraderSource.fetch: total and hasMore come from the x-total-count, x-page
\* and x-total-pages headers when present (parseInt of a missing x-page is NaN,
\* and NaN < k is false), and from the page length otherwise
CardTraderFetchResult(pg, size, n, hCount, hPage, hPages) ==
    PageResult("cardtrader", (pg - 1) * size, n,
               IF hCount # Absent THEN hCount ELSE n,
               IF hPages # Absent THEN (hPage # Absent /\ hPage < hPages) ELSE n >= size)

Header(max) == {Absent} \cup (0..max)

EbayFetch ==
    /\ \E off \in 0..MaxOffset, n \in 0..MaxItems, tot \in Header(MaxTotal) :
          page' = EbayFetchResult(off, n, tot)
    /\ UNCHANGED <<mgrVars, appVars, http, lookup, mtgVars>>

ScryfallFetch ==
    /\ \E pg \in 1..MaxPage, size \in 1..MaxPageSize, n \in 0..MaxItems,
          tot \in Header(MaxTotal), more \in BOOLEAN, notFound \in BOOLEAN :
          page' = IF notFound
                  THEN PageResult("scryfall", (pg - 1) * size, 0, 0, FALSE)
                  ELSE ScryfallFetchResult(pg, size, n, tot, more)
    /\ UNCHANGED <<mgrVars, appVars, http, lookup, mtgVars>>

MtgjsonFetch ==
    /\ \E pg \in 1..MaxPage, size \in 1..MaxPageSize, m \in 0..MaxTotal :
          page' = MtgjsonFetchResult(pg, size, m)
    /\ UNCHANGED <<mgrVars, appVars, http, lookup, mtgVars>>

CardTraderFetch ==
    /\ \E pg \in 1..MaxPage, size \in 1..MaxPageSize, n \in 0..MaxItems,
          hCount \in Header(MaxTotal), hPage \in Header(MaxPage), hPages \in Header(MaxPage) :
          page' = CardTraderFetchResult(pg, size, n, hCount, hPage, hPages)
    /\ UNCHANGED <<mgrVars, appVars, http, lookup, mtgVars>>

InitPaging == page = NoPage

NextPaging == EbayFetch \/ ScryfallFetch \/ MtgjsonFetch \/ CardTraderFetch

----------------------------------------------------------------------------
(* Adapter fetchById / getCardById / fetchBatch: the outcome as a function  *)
(* of what the provider answers.                                            *)

\* status of a provider answer; NoResponse: timeout or connection error,
\* AuthFailed: the adapter's own token request failed before the send
NoResponse == 0
AuthFailed == -2
LookupStatuses == {200, 404, 401, 500, NoResponse}
HttpAdapters == {"ebay", "cardtrader", "scryfall"}
MtgAdapters == {"cardtrader", "scryfall", "mtgjson"}
StatusesOf(ad) ==
    IF ad \in {"ebay", "cardtrader"} THEN LookupStatuses \cup {AuthFailed} ELSE LookupStatuses

NullItem == "null"
RequestIds == {"u1", "u3", "s1", "zz"}
IdLists == UNION {[1..n -> RequestIds] : n \in 0..MaxIds}

\* MTGJSON AllPrintings: sets of cards; the two faces of a double-faced card
\* are two cards with their own uuid and the same identifiers.scryfallId
Face1 == [uuid |-> "u1", scryfallId |-> "s1"]
Face2 == [uuid |-> "u2", scryfallId |-> "s1"]
Other == [uuid |-> "u3", scryfallId |-> "s2"]
BulkFiles == {<<>>, <<<<Other>>, <<Face1, Face2>>>>, <<<<Face1>>, <<Other>>>>}

NoLookup ==
    [adapter |-> "none", op |-> "none", ids |-> <<>>, kind |-> "none", items |-> <<>>,
     tagged |-> FALSE, notFound |-> FALSE, failed |-> FALSE, okIds |-> <<>>]

Outcome(kind, items, tagged) == [kind |-> kind, items |-> items, tagged |-> tagged]

RECURSIVE Flatten(_)
Flatten(sets) == IF sets = <<>> THEN <<>> ELSE Head(sets) \o Flatten(Tail(sets))

\* MTGJSONSource.fetchById over the downloaded sets: the first card whose uuid
\* or identifiers.scryfallId is the id
MtgjsonFind(bulk, id) ==
    LET cards == Flatten(bulk)
        hits == {i \in 1..Len(cards) : cards[i].uuid = id \/ cards[i].scryfallId = id}
    IN  IF hits = {} THEN Outcome("null", <<>>, FALSE)
        ELSE Outcome("item", <<cards[CHOOSE i \in hits : \A j \in hits : i <= j].uuid>>, FALSE)

\* fetchById of an adapter that issues GET <item url>: 404 is null, any other
\* failure is rethrown.  eBay throws ApiError(500, message, {source: this.id, ...});
\* the MTG adapters throw normalizeError(error), which carries status, message
\* and response body but not the source id
HttpFetchById(ad, id, st) ==
    CASE st = 200 -> Outcome("item", <<id>>, FALSE)
      [] st = 404 -> Outcome("null", <<>>, FALSE)
      [] OTHER -> Outcome("error", <<>>, ad = "ebay" /\ st # AuthFailed)

\* MTGJSONSource.fetchById: st is the status of the AllPrintings download
MtgjsonFetchById(id, st, bulk) ==
    IF st = 200 THEN MtgjsonFind(bulk, id) ELSE Outcome("error", <<>>, FALSE)

\* BaseMTGSource.getCardById: try { return await this.fetchById(id) } catch { return null }
GetCardByIdOf(out) == IF out.kind = "error" THEN Outcome("null", <<>>, FALSE) ELSE out

IsItem(x) == x # NullItem

\* EbaySource.fetchBatch / CardTraderSource.fetchBatch: one fetchById per id,
\* a failed or null lookup is dropped
PerItemBatch(ad, ids, sts) ==
    LET each == [i \in 1..Len(ids) |->
                    LET o == HttpFetchById(ad, ids[i], sts[i])
                    IN  IF o.kind = "item" THEN o.items[1] ELSE NullItem]
    IN  Outcome("list", SelectSeq(each, IsItem), FALSE)

RECURSIVE Pick(_, _, _)
Pick(seq, keep, i) ==
    IF i > Len(seq) THEN <<>>
    ELSE (IF i \in keep THEN <<seq[i]>> ELSE <<>>) \o Pick(seq, keep, i + 1)

\* ScryfallSource.fetchBatch: POST /cards/collection answers with the cards it
\* found; a failed call is logged and [] returned
ScryfallBatch(ids, st, found) ==
    IF st = 200 THEN Outcome("list", Pick(ids, found, 1), FALSE) ELSE Outcome("list", <<>>, FALSE)

RECURSIVE MtgjsonCollect(_, _, _, _)
\* the loop over Object.values(allSets): stop once ids.length cards are held,
\* else append every card of the set whose uuid or scryfallId is requested
MtgjsonCollect(bulk, k, cards, ids) ==
    IF k > Len(bulk) \/ Len(cards) >= Len(ids) THEN cards
    ELSE LET idSet == {ids[i] : i \in 1..Len(ids)}
             Match(c) == c.uuid \in idSet \/ c.scryfallId \in idSet
             matching == SelectSeq(bulk[k], Match)
         IN  MtgjsonCollect(bulk, k + 1,
                            cards \o [i \in 1..Len(matching) |-> matching[i].uuid], ids)

\* MTGJSONSource.fetchBatch: a failed download is logged and [] returned
MtgjsonBatch(ids, st, bulk) ==
    IF st = 200 THEN Outcome("list", MtgjsonCollect(bulk, 1, <<>>, ids), FALSE)
    ELSE Outcome("list", <<>>, FALSE)

Record(ad, op, ids, out, notFound, failed, okIds) ==
    [adapter |-> ad, op |-> op, ids |-> ids, kind |-> out.kind, items |-> out.items,
     tagged |-> out.tagged, notFound |-> notFound, failed |-> failed, okIds |-> okIds]

AdapterFetchById ==
    /\ \E ad \in HttpAdapters, id \in RequestIds :
        \E st \in StatusesOf(ad) :
          lookup' = Record(ad, "fetchById", <<id>>, HttpFetchById(ad, id, st),
                           st = 404, st \notin {200, 404}, <<>>)
    /\ UNCHANGED <<mgrVars, appVars, http, page, mtgVars>>

MtgjsonFetchByIdCall ==
    /\ \E id \in RequestIds, st \in LookupStatuses, bulk \in BulkFiles :
          lookup' = Record("mtgjson", "fetchById", <<id>>, MtgjsonFetchById(id, st, bulk),
                           st = 200 /\ MtgjsonFind(bulk, id).kind = "null", st # 200, <<>>)
    /\ UNCHANGED <<mgrVars, appVars, http, page, mtgVars>>

GetCardById ==
    /\ \E ad \in MtgAdapters, id \in RequestIds :
        \E st \in StatusesOf(ad), bulk \in BulkFiles :
          LET out == IF ad = "mtgjson" THEN MtgjsonFetchById(id, st, bulk)
                     ELSE HttpFetchById(ad, id, st)
              missing == IF ad = "mtgjson" THEN st = 200 /\ out.kind = "null" ELSE st = 404
              failed == IF ad = "mtgjson" THEN st # 200 ELSE st \notin {200, 404}
          IN  lookup' = Record(ad, "getCardById", <<id>>, GetCardByIdOf(out), missing, failed, <<>>)
    /\ UNCHANGED <<mgrVars, appVars, http, page, mtgVars>>

PerItemFetchBatch ==
    /\ \E ad \in {"ebay", "cardtrader"}, ids \in IdLists :
        \E sts \in [1..Len(ids) -> StatusesOf(ad)] :
          lookup' = Record(ad, "fetchBatch", ids, PerItemBatch(ad, ids, sts), FALSE,
                           \E i \in 1..Len(ids) : sts[i] \notin {200, 404},
                           Pick(ids, {i \in 1..Len(ids) : sts[i] = 200}, 1))
    /\ UNCHANGED <<mgrVars, appVars, http, page, mtgVars>>

ScryfallFetchBatch ==
    /\ \E ids \in IdLists \ {<<>>}, st \in LookupStatuses :
        \E found \in SUBSET (1..Len(ids)) :
          lookup' = Record("scryfall", "fetchBatch", ids, ScryfallBatch(ids, st, found),
                           FALSE, st # 200, <<>>)
    /\ UNCHANGED <<mgrVars, appVars, http, page, mtgVars>>

MtgjsonFetchBatch ==
    /\ \E ids \in IdLists \ {<<>>}, st \in LookupStatuses, bulk \in BulkFiles :
          lookup' = Record("mtgjson", "fetchBatch", ids, MtgjsonBatch(ids, st, bulk),
                           FALSE, st # 200, <<>>)
    /\ UNCHANGED <<mgrVars, appVars, http, page, mtgVars>>

InitLookup == lookup = NoLookup

NextLookup ==
    \/ AdapterFetchById
    \/ MtgjsonFetchByIdCall
    \/ GetCardById
    \/ PerItemFetchBatch
    \/ ScryfallFetchBatch
    \/ MtgjsonFetchBatch

----------------------------------------------------------------------------
(* DataAcquisitionService: the source table, syncSource and the bullmq     *)
(* queue 'data-acquisition' with the job options of the service            *)

SvcIds == {"ebay-api", "feed"}
SyncIds == {"t1", "t2"}
SourceNames == {"eBay API", "ebay  api", "Feed"}

\* source.name.toLowerCase().replace(/\s+/g, '-')
GenerateId(name) ==
    CASE name = "eBay API" -> "ebay-api"
      [] name = "ebay  api" -> "ebay-api"
      [] OTHER -> "feed"

\* rateLimit.requests of a source (Absent: no rateLimit configured)
Budgets == {Absent, 1}

NoAcqSource == [present |-> FALSE, enabled |-> FALSE, requests |-> Absent, lastSync |-> 0]

NoSync ==
    [pc |-> "idle", sid |-> "ebay-api", force |-> FALSE, knownAtCall |-> FALSE,
     enabledAtCall |-> FALSE, rateOk |-> FALSE, stale |-> FALSE, res |-> "none"]

\* the calls that hold a reference to the source object stored under id lose
\* it when the Map entry is replaced or deleted
Detach(id) ==
    [t \in SyncIds |->
        IF syncs[t].sid = id /\ syncs[t].pc \in {"rateWait", "addWait"}
        THEN [syncs[t] EXCEPT !.stale = TRUE] ELSE syncs[t]]

\* Only the syncSource call that returned last keeps its record.
SetSync(t, rec) ==
    [u \in SyncIds |->
        IF u = t THEN rec
        ELSE IF rec.pc = "done" /\ syncs[u].pc = "done" THEN NoSync ELSE syncs[u]]

\* addSource(source): a taken id is rejected with 409 and changes nothing
AddSource(name, enabled, requests) ==
    LET id == GenerateId(name) IN
    /\ ~activeSources[id].present
    /\ activeSources' = [activeSources EXCEPT ![id] =
            [present |-> TRUE, enabled |-> enabled, requests |-> requests, lastSync |-> 0]]
    /\ UNCHANGED <<syncs, jobs, windowCount>>

SourceUpdates ==
    {[field |-> "enabled", flag |-> b, requests |-> Absent] : b \in BOOLEAN}
        \cup {[field |-> "requests", flag |-> FALSE, requests |-> r] : r \in Budgets}

\* updateSource(sourceId, updates): {...source, ...updates} replaces the Map entry
UpdateSource(id, u) ==
    /\ activeSources[id].present
    /\ activeSources' = [activeSources EXCEPT ![id] =
            IF u.field = "enabled" THEN [@ EXCEPT !.enabled = u.flag]
            ELSE [@ EXCEPT !.requests = u.requests]]
    /\ syncs' = Detach(id)
    /\ UNCHANGED <<jobs, windowCount>>

\* removeSource(sourceId) of the service
AcqRemoveSource(id) ==
    /\ activeSources[id].present
    /\ activeSources' = [activeSources EXCEPT ![id] = NoAcqSource]
    /\ syncs' = Detach(id)
    /\ UNCHANGED <<jobs, windowCount>>

\* (mutant) a sync that ignores the enabled flag
MaySyncAlways(src, force) == TRUE

\* if (!source.enabled && !force) return false
MaySync(src, force) == src.enabled \/ force

\* checkRateLimit(source): the Redis counter is commented out, every path of
\* the try block returns true
CheckRateLimit(src, count) == IF src.requests = Absent THEN TRUE ELSE TRUE

\* syncSource(sourceId, force) up to `await this.checkRateLimit(source)`
SyncSourceStart(t, sid, force) ==
    /\ syncs[t].pc \in {"idle", "done"}
    /\ LET src == activeSources[sid]
           rec == [NoSync EXCEPT !.sid = sid, !.force = force, !.knownAtCall = src.present,
                                 !.enabledAtCall = src.enabled,
                                 !.rateOk = CheckRateLimit(src, windowCount[sid])]
       IN syncs' = SetSync(t,
            IF ~src.present THEN [rec EXCEPT !.pc = "done", !.res = "e404"]
            ELSE IF ~MaySync(src, force) THEN [rec EXCEPT !.pc = "done", !.res = "false"]
            ELSE [rec EXCEPT !.pc = "rateWait"])
    /\ UNCHANGED <<activeSources, jobs, windowCount>>

\* the rate-limit check resumes: false is returned, or queue.add is invoked
SyncSourceRateChecked(t) ==
    /\ syncs[t].pc = "rateWait"
    /\ syncs' = SetSync(t,
            IF syncs[t].rateOk THEN [syncs[t] EXCEPT !.pc = "addWait"]
            ELSE [syncs[t] EXCEPT !.pc = "done", !.res = "false"])
    /\ UNCHANGED <<activeSources, jobs, windowCount>>

\* defaultJobOptions of the queue (constructor), delays in seconds
KeepCompleted == 1000
KeepFailed == 5000
Attempts == 3
BackoffDelay == 1
DefaultJobOptions ==
    [removeOnComplete |-> KeepCompleted, removeOnFail |-> KeepFailed,
     attempts |-> Attempts, backoff |-> BackoffDelay]

\* the options passed to queue.add: removeOnComplete: true, removeOnFail: true
\* (true keeps no finished job)
RemoveAtOnce == 0
SyncJobOptions == [removeOnComplete |-> RemoveAtOnce, removeOnFail |-> RemoveAtOnce]

\* bullmq: the options given to add() override the queue's defaultJobOptions
MergeOptions(defaults, opts) ==
    [k \in DOMAIN defaults |-> IF k \in DOMAIN opts THEN opts[k] ELSE defaults[k]]

NewJob(sid, forced, enabledAtCall) ==
    [sid |-> sid, forced |-> forced, enabledAtCall |-> enabledAtCall, state |-> "waiting",
     attemptsMade |-> 0, delays |-> <<>>, ended |-> "none",
     opts |-> MergeOptions(DefaultJobOptions, SyncJobOptions)]

\* queue.add settles: the job is in the queue and lastSync is written to the
\* source object the call holds, or the failure is rethrown as ApiError(500)
SyncSourceAdded(t, ok) ==
    /\ syncs[t].pc = "addWait"
    /\ Len(jobs) < MaxJobs
    /\ IF ok
       THEN /\ jobs' = Append(jobs, NewJob(syncs[t].sid, syncs[t].force, syncs[t].enabledAtCall))
            /\ windowCount' = [windowCount EXCEPT ![syncs[t].sid] = @ + 1]
            /\ activeSources' =
                  IF syncs[t].stale THEN activeSources
                  ELSE [activeSources EXCEPT ![syncs[t].sid].lastSync = Len(jobs) + 1]
            /\ syncs' = SetSync(t, [syncs[t] EXCEPT !.pc = "done", !.res = "true"])
       ELSE /\ syncs' = SetSync(t, [syncs[t] EXCEPT !.pc = "done", !.res = "e500"])
            /\ UNCHANGED <<activeSources, jobs, windowCount>>

\* Math.floor(Date.now() / (perSeconds * 1000)) moves on: a new window
WindowRolls ==
    /\ \E s \in SvcIds : windowCount[s] > 0
    /\ windowCount' = [s \in SvcIds |-> 0]
    /\ UNCHANGED <<activeSources, syncs, jobs>>

----------------------------------------------------------------------------
(* The worker of the queue: bullmq's handling of a job under its options   *)

RECURSIVE Pow2(_)
Pow2(n) == IF n <= 0 THEN 1 ELSE 2 * Pow2(n - 1)

\* backoff {type: 'exponential', delay}: delay * 2^(attemptsMade - 1)
Backoff(delay, attemptsMade) == delay * Pow2(attemptsMade - 1)

\* removeOnComplete / removeOnFail with keep count `keep`: of the jobs that
\* ended in `state`, only the `keep` most recent stay in the queue
Trim(js, state, keep) ==
    [i \in 1..Len(js) |->
        IF js[i].state = state
              /\ Cardinality({k \in i..Len(js) : js[k].state = state}) > keep
        THEN [js[i] EXCEPT !.state = "removed"] ELSE js[i]]

\* the worker takes a waiting job
WorkerTake(j) ==
    /\ j \in 1..Len(jobs) /\ jobs[j].state = "waiting"
    /\ jobs' = [jobs EXCEPT ![j].state = "active"]
    /\ UNCHANGED <<activeSources, syncs, windowCount>>

\* the handler returned
WorkerCompleted(j) ==
    /\ j \in 1..Len(jobs) /\ jobs[j].state = "active"
    /\ jobs' = Trim([jobs EXCEPT ![j].state = "completed", ![j].ended = "completed"],
                    "completed", jobs[j].opts.removeOnComplete)
    /\ UNCHANGED <<activeSources, syncs, windowCount>>

\* the handler threw and the processor rethrew: bullmq retries after the
\* backoff while attempts remain, and otherwise fails the job
WorkerFailed(j) ==
    /\ j \in 1..Len(jobs) /\ jobs[j].state = "active"
    /\ LET made == jobs[j].attemptsMade + 1 IN
        jobs' = IF made < jobs[j].opts.attempts
                THEN [jobs EXCEPT ![j].state = "delayed", ![j].attemptsMade = made,
                                  ![j].delays = Append(@, Backoff(jobs[j].opts.backoff, made))]
                ELSE Trim([jobs EXCEPT ![j].state = "failed", ![j].attemptsMade = made,
                                       ![j].ended = "failed"],
                          "failed", jobs[j].opts.removeOnFail)
    /\ UNCHANGED <<activeSources, syncs, windowCount>>

\* the backoff delay of a delayed job has elapsed
BackoffElapsed(j) ==
    /\ j \in 1..Len(jobs) /\ jobs[j].state = "delayed"
    /\ jobs' = [jobs EXCEPT ![j].state = "waiting"]
    /\ UNCHANGED <<activeSources, syncs, windowCount>>

InitAcquisition ==
    /\ activeSources = [s \in SvcIds |-> NoAcqSource]
    /\ syncs = [t \in SyncIds |-> NoSync]
    /\ jobs = <<>>
    /\ windowCount = [s \in SvcIds |-> 0]

\* the source table and syncSource, without rate limits: one caller of
\* syncSource at a time, with the table changing while its call is in flight
OneCaller == {"t1"}

NextSync ==
    /\ UNCHANGED <<mgrVars, adapterVars, reg, procVars>>
    /\ \/ \E n \in SourceNames, e \in BOOLEAN : AddSource(n, e, Absent)
       \/ \E id \in SvcIds, u \in {v \in SourceUpdates : v.field = "enabled"} : UpdateSource(id, u)
       \/ \E id \in SvcIds : AcqRemoveSource(id)
       \/ \E t \in OneCaller, id \in SvcIds, f \in BOOLEAN : SyncSourceStart(t, id, f)
       \/ \E t \in OneCaller : SyncSourceRateChecked(t)
       \/ \E t \in OneCaller, ok \in BOOLEAN : SyncSourceAdded(t, ok)

\* syncSource of enabled sources against their rate-limit budgets
NextRate ==
    /\ UNCHANGED <<mgrVars, adapterVars, reg, procVars>>
    /\ \/ \E n \in SourceNames, r \in Budgets : AddSource(n, TRUE, r)
       \/ \E id \in SvcIds, u \in {v \in SourceUpdates : v.field = "requests"} : UpdateSource(id, u)
       \/ \E t \in SyncIds, id \in SvcIds : SyncSourceStart(t, id, FALSE)
       \/ \E t \in SyncIds : SyncSourceRateChecked(t)
       \/ \E t \in SyncIds : SyncSourceAdded(t, TRUE)
       \/ WindowRolls

\* the queue: jobs added by syncSource and handled by the worker
NextQueue ==
    /\ UNCHANGED <<mgrVars, adapterVars, reg, procVars>>
    /\ \/ \E n \in SourceNames : AddSource(n, TRUE, Absent)
       \/ \E t \in SyncIds, id \in SvcIds : SyncSourceStart(t, id, FALSE)
       \/ \E t \in SyncIds : SyncSourceRateChecked(t)
       \/ \E t \in SyncIds : SyncSourceAdded(t, TRUE)
       \/ \E j \in 1..MaxJobs : WorkerTake(j)
       \/ \E j \in 1..MaxJobs : WorkerCompleted(j)
       \/ \E j \in 1..MaxJobs : WorkerFailed(j)
       \/ \E j \in 1..MaxJobs : BackoffElapsed(j)

----------------------------------------------------------------------------
(* The periodic sync timers.  DataAcquisitionService.setupScheduledSyncs()  *)
(* calls setInterval for every enabled source with a syncFrequency and      *)
(* keeps no handle; it runs in initialize(), addSource() and updateSource(). *)
(* MTGSourceManager keeps its one handle in syncTimer.                      *)

\* setupScheduledSyncs() over the source table as and the frequencies freq
SetupScheduledSyncs(as, freq, timers) ==
    [s \in SvcIds |->
        IF as[s].present /\ as[s].enabled /\ freq[s] THEN timers[s] + 1 ELSE timers[s]]

TimersWithin(timers) == \A s \in SvcIds : timers[s] <= MaxTimers

\* initialize(): loadDataSources() stores the default source 'ebay-api'
\* (enabled, syncFrequency 60), then setupScheduledSyncs()
AcqInitialize ==
    /\ ~sched.initialized
    /\ LET as == [activeSources EXCEPT !["ebay-api"] =
                      [present |-> TRUE, enabled |-> TRUE, requests |-> Absent, lastSync |-> 0]]
           freq == [sched.freq EXCEPT !["ebay-api"] = TRUE]
           timers == SetupScheduledSyncs(as, freq, sched.timers)
       IN /\ TimersWithin(timers)
          /\ activeSources' = as
          /\ sched' = [initialized |-> TRUE, freq |-> freq, timers |-> timers]
    /\ syncs' = Detach("ebay-api")
    /\ UNCHANGED <<jobs, windowCount>>

\* addSource(source) with its timers: setupScheduledSyncs() when the new
\* source is enabled and has a syncFrequency
ScheduledAddSource(name, enabled, requests, hasFrequency) ==
    /\ AddSource(name, enabled, requests)
    /\ LET freq == [sched.freq EXCEPT ![GenerateId(name)] = hasFrequency]
           timers == IF enabled /\ hasFrequency
                     THEN SetupScheduledSyncs(activeSources', freq, sched.timers)
                     ELSE sched.timers
       IN /\ TimersWithin(timers)
          /\ sched' = [sched EXCEPT !.freq = freq, !.timers = timers]

\* updates.syncFrequency: not in the updates, a positive number, or 0
FrequencyUpdates == {"keep", "set", "clear"}

\* updateSource(sourceId, updates) with its timers: setupScheduledSyncs() when
\* updates.syncFrequency is truthy or updates.enabled is given
ScheduledUpdateSource(id, u, f) ==
    /\ UpdateSource(id, u)
    /\ LET freq == [sched.freq EXCEPT ![id] = IF f = "keep" THEN @ ELSE f = "set"]
           timers == IF f = "set" \/ u.field = "enabled"
                     THEN SetupScheduledSyncs(activeSources', freq, sched.timers)
                     ELSE sched.timers
       IN /\ TimersWithin(timers)
          /\ sched' = [sched EXCEPT !.freq = freq, !.timers = timers]

\* removeSource(sourceId) with its timers: the Map entry goes, no timer is cleared
ScheduledRemoveSource(id) ==
    /\ AcqRemoveSource(id)
    /\ sched' = [sched EXCEPT !.freq[id] = FALSE]

\* MTGSourceManager.startSync(interval) on the running manager
MtgStartSync(timed) ==
    /\ mtg.pc = "ready"
    /\ mtg' = IF timed THEN StartSyncOf(mtg) ELSE StopSyncOf(mtg)

\* MTGSourceManager.stopSync()
MtgStopSync ==
    /\ mtg.pc = "ready"
    /\ mtg' = StopSyncOf(mtg)

\* MTGSourceManager.close() up to its first await: stopSync()
MtgCloseStart ==
    /\ mtg.pc = "ready"
    /\ mtg' = [StopSyncOf(mtg) EXCEPT !.pc = "closing"]

\* every source.close() has settled: sources.clear()
MtgCloseDone ==
    /\ mtg.pc = "closing"
    /\ mtg' = [mtg EXCEPT !.pc = "ready", !.sources = <<>>]

InitSched ==
    sched = [initialized |-> FALSE, freq |-> [s \in SvcIds |-> FALSE],
             timers |-> [s \in SvcIds |-> 0]]

NextTimers ==
    /\ UNCHANGED <<mgrVars, http, page, lookup, limiter, srcSync, reg, procVars>>
    /\ \/ /\ UNCHANGED mtg
          /\ \/ AcqInitialize
             \/ \E n \in SourceNames, e \in BOOLEAN, h \in BOOLEAN : ScheduledAddSource(n, e, Absent, h)
             \/ \E id \in SvcIds, u \in SourceUpdates, f \in FrequencyUpdates :
                    ScheduledUpdateSource(id, u, f)
             \/ \E id \in SvcIds : ScheduledRemoveSource(id)
       \/ /\ UNCHANGED <<acqVars, sched>>
          /\ \/ NewManager(EmptyMtgConfig)
             \/ \E ok \in BOOLEAN : InitializeSettle(ok)
             \/ \E timed \in BOOLEAN : MtgStartSync(timed)
             \/ MtgStopSync
             \/ MtgCloseStart
             \/ MtgCloseDone

----------------------------------------------------------------------------
(* DataProcessingService: the registries of transformations and validation *)
(* rules, and processRecord.  Every transformation and every rule is       *)
(* awaited on its own; the registries are configured between calls.        *)

TransformationNames == {"trim-strings", "convert-numbers"}
RuleNames == {"required-fields", "valid-price"}
Toggles == [validate : BOOLEAN, transform : BOOLEAN, enrich : BOOLEAN, normalize : BOOLEAN]

\* this.defaultOptions
DefaultOptions == [validate |-> TRUE, transform |-> TRUE, enrich |-> TRUE, normalize |-> TRUE]

\* new ApiError(statusCode, message, isOperational = true): the third argument
\* is stored as isOperational, and the class has no details property
NoPayload == [present |-> FALSE, list |-> <<>>]
Payload(list) == [present |-> TRUE, list |-> list]
NoError == [statusCode |-> 0, message |-> <<>>, isOperational |-> NoPayload, details |-> NoPayload]
ApiError(statusCode, message, third) ==
    [statusCode |-> statusCode, message |-> message, isOperational |-> third,
     details |-> NoPayload]

IdleProc ==
    [pc |-> "idle", opts |-> DefaultOptions, ts |-> <<>>, vs |-> <<>>, i |-> 0, log |-> <<>>,
     errors |-> <<>>, err |-> NoError, status |-> "pending", metaError |-> <<>>,
     metaDetails |-> NoPayload, res |-> "none"]

InSeq(q, x) == \E k \in 1..Len(q) : q[k] = x
Without(q, x) == SelectSeq(q, LAMBDA y : y # x)

\* addTransformation / removeTransformation / addValidationRule /
\* removeValidationRule, between two processRecord calls
AddTransformation(name) ==
    /\ proc.pc \in {"idle", "done"}
    /\ ~InSeq(pipeline.transformations, name)
    /\ pipeline' = [pipeline EXCEPT !.transformations = Append(@, name)]
    /\ proc' = IdleProc

RemoveTransformation(name) ==
    /\ proc.pc \in {"idle", "done"}
    /\ InSeq(pipeline.transformations, name)
    /\ pipeline' = [pipeline EXCEPT !.transformations = Without(@, name)]
    /\ proc' = IdleProc

AddValidationRule(name) ==
    /\ proc.pc \in {"idle", "done"}
    /\ ~InSeq(pipeline.validationRules, name)
    /\ pipeline' = [pipeline EXCEPT !.validationRules = Append(@, name)]
    /\ proc' = IdleProc

RemoveValidationRule(name) ==
    /\ proc.pc \in {"idle", "done"}
    /\ InSeq(pipeline.validationRules, name)
    /\ pipeline' = [pipeline EXCEPT !.validationRules = Without(@, name)]
    /\ proc' = IdleProc

\* the stages of processRecord in the order of its if-statements
StageOrder == <<"transform", "validate", "enrich", "normalize">>
Rank(stage) == CHOOSE k \in 1..Len(StageOrder) : StageOrder[k] = stage

\* the catch block of processRecord: the record is marked failed with the
\* error's message, and with error.details when the error has any
Fail(rec, e) ==
    [rec EXCEPT !.pc = "done", !.res = "rejected", !.err = e, !.status = "failed",
                !.metaError = e.message,
                !.metaDetails = IF e.details.present THEN e.details ELSE @]

\* the stage processRecord awaits after the stages up to rank k: the next
\* enabled one, entered at its first item; applyTransformations and
\* validateData over an empty registry return at once; after the last stage
\* the copy is marked processed and returned
RECURSIVE Enter(_, _)
Enter(rec, k) ==
    IF k > Len(StageOrder)
    THEN [rec EXCEPT !.pc = "done", !.res = "resolved", !.status = "processed"]
    ELSE LET stage == StageOrder[k] IN
         IF ~rec.opts[stage] THEN Enter(rec, k + 1)
         ELSE IF stage = "transform" /\ rec.ts = <<>> THEN Enter(rec, k + 1)
         ELSE IF stage = "validate" /\ rec.vs = <<>> THEN Enter(rec, k + 1)
         ELSE [rec EXCEPT !.pc = stage, !.i = 1]

\* processRecord(record, options) up to its first await
ProcessRecord(opts) ==
    /\ proc.pc \in {"idle", "done"}
    /\ proc' = Enter([IdleProc EXCEPT !.opts = opts, !.ts = pipeline.transformations,
                                      !.vs = pipeline.validationRules], 1)
    /\ UNCHANGED pipeline

\* (mutant) a transformation failure reported without the transformation's name
TransformationErrorUnnamed(name) == ApiError(500, <<"Error applying transformation", "">>, NoPayload)

\* throw new ApiError(500, `Error applying transformation '${name}'`)
TransformationError(name) == ApiError(500, <<"Error applying transformation", name>>, NoPayload)

\* `await transformation.apply(result)` settles
TransformSettle(threw) ==
    /\ proc.pc = "transform"
    /\ LET name == proc.ts[proc.i]
           rec == [proc EXCEPT !.log = Append(@, [stage |-> "transform", name |-> name,
                                                  out |-> IF threw THEN "throw" ELSE "ok"])]
       IN proc' = IF threw THEN Fail(rec, TransformationError(name))
                  ELSE IF proc.i < Len(proc.ts) THEN [rec EXCEPT !.i = @ + 1]
                  ELSE Enter(rec, Rank("transform") + 1)
    /\ UNCHANGED pipeline

RuleOutcomes == {"valid", "invalid", "throw"}

\* the loop of validateData ends after the last rule
ValidationOver(i, n, errors) == i >= n

\* what one rule adds to `errors`: its violations, or the message of its exception
Violations(name, out) ==
    CASE out = "invalid" -> <<[rule |-> name, kind |-> "violation"]>>
      [] out = "throw" -> <<[rule |-> name, kind |-> "threw"]>>
      [] OTHER -> <<>>

\* `await rule.validate(data)` settles; after the last rule processRecord
\* throws ApiError(400, 'Data validation failed', {errors}) unless errors is empty
ValidateSettle(out) ==
    /\ proc.pc = "validate"
    /\ LET name == proc.vs[proc.i]
           errors == proc.errors \o Violations(name, out)
           rec == [proc EXCEPT !.log = Append(@, [stage |-> "validate", name |-> name, out |-> out]),
                               !.errors = errors]
       IN proc' = IF ~ValidationOver(proc.i, Len(proc.vs), errors) THEN [rec EXCEPT !.i = @ + 1]
                  ELSE IF errors # <<>>
                       THEN Fail(rec, ApiError(400, <<"Data validation failed", "">>, Payload(errors)))
                       ELSE Enter(rec, Rank("validate") + 1)
    /\ UNCHANGED pipeline

\* `await this.enrichData(processedData)` resumes
EnrichSettle ==
    /\ proc.pc = "enrich"
    /\ proc' = Enter([proc EXCEPT !.log = Append(@, [stage |-> "enrich", name |-> "enrichData",
                                                     out |-> "ok"])],
                     Rank("enrich") + 1)
    /\ UNCHANGED pipeline

\* `await this.normalizeData(processedData)` resumes
NormalizeSettle ==
    /\ proc.pc = "normalize"
    /\ proc' = Enter([proc EXCEPT !.log = Append(@, [stage |-> "normalize", name |-> "normalizeData",
                                                     out |-> "ok"])],
                     Rank("normalize") + 1)
    /\ UNCHANGED pipeline

\* the constructor registers the default transformations and rules
InitProcessing ==
    /\ pipeline = [transformations |-> <<"trim-strings", "convert-numbers">>,
                   validationRules |-> <<"required-fields", "valid-price">>]
    /\ proc = IdleProc

NextProcess ==
    /\ UNCHANGED <<mgrVars, adapterVars, reg, acqVars, norm, record>>
    /\ \/ \E n \in TransformationNames : AddTransformation(n)
       \/ \E n \in TransformationNames : RemoveTransformation(n)
       \/ \E n \in RuleNames : AddValidationRule(n)
       \/ \E n \in RuleNames : RemoveValidationRule(n)
       \/ \E o \in Toggles : ProcessRecord(o)
       \/ \E t \in BOOLEAN : TransformSettle(t)
       \/ \E o \in RuleOutcomes : ValidateSettle(o)
       \/ EnrichSettle
       \/ NormalizeSettle

----------------------------------------------------------------------------
(* enrichData and normalizeData as functions on a record.  A record is     *)
(* given by the values of the fields the two functions read or write;      *)
(* "absent" is undefined, "empty" the empty string, "zero" the number 0.   *)

\* JavaScript truthiness of a scalar value
Truthy(v) == v \notin {"absent", "empty", "zero"}

NoPriceInfo == [kind |-> "absent", value |-> "absent", currencyId |-> "absent"]
NoCategory ==
    [kind |-> "absent", text |-> "absent", categoryId |-> "absent", categoryName |-> "absent",
     id |-> "absent", name |-> "absent"]
NoListing == [kind |-> "absent", type |-> "absent"]
NoMetadata == [kind |-> "absent", processedAt |-> "absent"]

\* a || b
Or(a, b) == IF Truthy(a) THEN a ELSE b

\* the records submitted: raw eBay fields, already-normalized fields and
\* missing, empty and zero values
NormInputs ==
    [itemId : {"absent", "b"},
     id : {"absent", "empty", "zero", "a"},
     title : {"absent", "T"},
     name : {"absent", "empty", "N"},
     sellingStatus : {NoPriceInfo, [kind |-> "object", value |-> "7", currencyId |-> "EUR"],
                      [kind |-> "object", value |-> "7", currencyId |-> "absent"]},
     priceInfo : {NoPriceInfo},
     price : {"absent", "5"},
     currency : {"absent"},
     category : {NoCategory,
                 [NoCategory EXCEPT !.kind = "string", !.text = "Coins"],
                 [NoCategory EXCEPT !.kind = "object", !.categoryId = "c1", !.categoryName = "Coins"]},
     listingInfo : {NoListing, [kind |-> "object", type |-> "absent"]},
     listing : {NoListing},
     createdAt : {"absent", "t0"},
     updatedAt : {"absent"},
     source : {"absent", "ebay"},
     metadata : {NoMetadata, [kind |-> "object", processedAt |-> "absent"],
                 [kind |-> "object", processedAt |-> "t0"]}]

\* new Date().toISOString() and generateUniqueId() at the k-th application:
\* a different value every time
NowAt(k) == <<"now1", "now2", "now3", "now4">>[k]
GenAt(k) == <<"item1", "item2", "item3", "item4">>[k]

\* enrichData(data)
EnrichData(d, gen, now) ==
    LET meta == IF d.metadata.kind = "absent"
                THEN [kind |-> "object", processedAt |-> "absent"] ELSE d.metadata
    IN [d EXCEPT !.createdAt = IF Truthy(d.createdAt) THEN @ ELSE now,
                 !.updatedAt = IF Truthy(d.updatedAt) THEN @ ELSE now,
                 !.id = IF Truthy(d.id) THEN @ ELSE gen,
                 !.metadata = [meta EXCEPT !.processedAt = IF Truthy(@) THEN @ ELSE now]]

\* normalizeData(data): the field mappings, the copy of the unmapped fields,
\* the price, category and listing blocks, and the required fields
NormalizeData(d, gen, now) ==
    LET \* for (const [sourceField, targetField] of Object.entries(fieldMappings)) and
        \* the copy of the remaining fields not already in normalized
        id1 == IF d.itemId # "absent" THEN d.itemId ELSE d.id
        name1 == IF d.title # "absent" THEN d.title ELSE d.name
        priceInfo1 == IF d.sellingStatus.kind # "absent" THEN d.sellingStatus ELSE d.priceInfo
        \* if (normalized.priceInfo) { if (priceInfo.currentPrice) {...} delete normalized.priceInfo }
        hasPrice == priceInfo1.kind = "object"
        price2 == IF hasPrice THEN priceInfo1.value ELSE d.price
        currency2 == IF hasPrice THEN Or(priceInfo1.currencyId, "USD") ELSE d.currency
        \* if (normalized.category) {...}
        category2 ==
            IF d.category.kind = "string" /\ Truthy(d.category.text)
            THEN [NoCategory EXCEPT !.kind = "object", !.id = "empty", !.name = d.category.text]
            ELSE IF d.category.kind = "object" /\ Truthy(d.category.categoryId)
            THEN [NoCategory EXCEPT !.kind = "object", !.id = d.category.categoryId,
                                    !.name = Or(d.category.categoryName, "empty")]
            ELSE d.category
        \* if (normalized.listingInfo) { normalized.listing = {...}; delete normalized.listingInfo }
        hasListing == d.listingInfo.kind = "object"
        listing2 ==
            IF hasListing THEN [kind |-> "object", type |-> Or(d.listingInfo.type, "Auction")]
            ELSE d.listing
    IN [itemId |-> "absent",
        id |-> IF Truthy(id1) THEN id1 ELSE gen,
        title |-> "absent",
        name |-> IF Truthy(name1) THEN name1 ELSE "Untitled Item",
        sellingStatus |-> NoPriceInfo,
        priceInfo |-> IF hasPrice THEN NoPriceInfo ELSE priceInfo1,
        price |-> IF price2 = "absent" THEN "zero" ELSE price2,
        currency |-> IF Truthy(currency2) THEN currency2 ELSE "USD",
        category |-> category2,
        listingInfo |-> IF hasListing THEN NoListing ELSE d.listingInfo,
        listing |-> listing2,
        createdAt |-> IF Truthy(d.createdAt) THEN d.createdAt ELSE now,
        updatedAt |-> IF Truthy(d.updatedAt) THEN d.updatedAt ELSE now,
        source |-> IF Truthy(d.source) THEN d.source ELSE "unknown",
        metadata |-> d.metadata]

\* the record with no field set
BlankRecord ==
    [itemId |-> "absent", id |-> "absent", title |-> "absent", name |-> "absent",
     sellingStatus |-> NoPriceInfo, priceInfo |-> NoPriceInfo, price |-> "absent",
     currency |-> "absent", category |-> NoCategory, listingInfo |-> NoListing,
     listing |-> NoListing, createdAt |-> "absent", updatedAt |-> "absent",
     source |-> "absent", metadata |-> NoMetadata]

IdleNorm == [stage |-> "idle", step |-> 0, cur |-> BlankRecord, before |-> BlankRecord,
             first |-> BlankRecord]

\* a record is handed to the enrichment step
Submit(d) ==
    /\ norm.stage = "idle"
    /\ norm' = [IdleNorm EXCEPT !.stage = "submitted", !.cur = d]
    /\ UNCHANGED <<pipeline, proc>>

\* enrichData runs on the submitted record, or again on the output of normalizeData
Enrich ==
    /\ norm.stage \in {"submitted", "normalized"}
    /\ norm.step < 4
    /\ norm' = [norm EXCEPT !.stage = "enriched", !.step = @ + 1, !.before = norm.cur,
                            !.cur = EnrichData(norm.cur, GenAt(norm.step + 1), NowAt(norm.step + 1))]
    /\ UNCHANGED <<pipeline, proc>>

\* normalizeData runs on the output of enrichData
Normalize ==
    /\ norm.stage = "enriched"
    /\ norm' = [norm EXCEPT !.stage = "normalized", !.step = @ + 1,
                            !.cur = NormalizeData(norm.cur, GenAt(norm.step + 1), NowAt(norm.step + 1)),
                            !.first = IF norm.step = 1
                                      THEN NormalizeData(norm.cur, GenAt(2), NowAt(2)) ELSE @]
    /\ UNCHANGED <<pipeline, proc>>

InitNormalization == norm = IdleNorm

NextNormalize ==
    /\ UNCHANGED <<mgrVars, adapterVars, reg, acqVars, record>>
    /\ \/ norm.stage = "idle" /\ \E d \in NormInputs : Submit(d)
       \/ Enrich
       \/ Normalize

----------------------------------------------------------------------------
(* DataAcquisitionService.processRecord(record) and saveRecord(record).     *)
(* processRecord writes the record's metadata in place; saveRecord is       *)
(* awaited, and rejects with ApiError(500) when its body throws.            *)

\* a record as a completed fetch creates it
PendingRecord ==
    [pc |-> "idle", runs |-> 0, before |-> "pending", status |-> "pending", writes |-> <<>>,
     error |-> FALSE, saved |-> <<>>, res |-> "none"]

\* a fetch completes: the next record
CreateRecord ==
    /\ record.pc \in {"idle", "done"}
    /\ record # PendingRecord
    /\ record' = PendingRecord

\* processRecord(record) up to `await this.saveRecord(record)`: status is set
\* to 'processing' and then to 'processed', whatever it was, and the record is
\* handed to saveRecord
AcqProcessRecord ==
    /\ record.pc \in {"idle", "done"}
    /\ record.runs < MaxRuns
    /\ record' = [record EXCEPT !.pc = "saveWait", !.runs = @ + 1, !.before = record.status,
                                !.status = "processed", !.writes = <<"processing", "processed">>,
                                !.saved = <<"processed">>, !.res = "none"]

\* saveRecord settles.  On a rejection the catch block marks the record
\* failed, sets metadata.error and hands the record to saveRecord again.
SaveRecordSettle(threw) ==
    /\ record.pc = "saveWait"
    /\ record' = IF threw
                 THEN [record EXCEPT !.pc = "failedSaveWait", !.status = "failed",
                                     !.writes = Append(@, "failed"), !.error = TRUE,
                                     !.saved = Append(@, "failed")]
                 ELSE [record EXCEPT !.pc = "done", !.res = "resolved"]

\* the saveRecord of the catch block settles: processRecord rejects, with the
\* first error or with the second save's
FailedSaveRecordSettle(threw) ==
    /\ record.pc = "failedSaveWait"
    /\ record' = [record EXCEPT !.pc = "done", !.res = "rejected"]

InitRecord == record = PendingRecord

\* both processRecord operations, of the acquisition and of the processing service
NextRecord ==
    /\ UNCHANGED <<mgrVars, adapterVars, reg, acqVars, norm>>
    /\ \/ /\ UNCHANGED <<pipeline, proc>>
          /\ \/ CreateRecord
             \/ AcqProcessRecord
             \/ \E t \in BOOLEAN : SaveRecordSettle(t)
             \/ \E t \in BOOLEAN : FailedSaveRecordSettle(t)
       \/ /\ UNCHANGED record
          /\ \/ \E o \in Toggles : ProcessRecord(o)
             \/ \E t \in BOOLEAN : TransformSettle(t)
             \/ \E o \in RuleOutcomes : ValidateSettle(o)
             \/ EnrichSettle
             \/ NormalizeSettle

----------------------------------------------------------------------------
Init ==
    /\ InitMgr /\ InitHttp /\ InitPaging /\ InitLookup /\ InitLimiter /\ InitMtg /\ InitSrcSync /\ InitSched /\ InitRegistration
    /\ InitAcquisition /\ InitProcessing /\ InitNormalization /\ InitRecord

SpecFanOut == Init /\ [][NextFanOut]_vars

SpecProbe == Init /\ [][NextProbe]_vars

SpecLifecycle == Init /\ [][NextLifecycle]_vars

SpecClose == Init /\ [][NextClose]_vars

SpecStatus == Init /\ [][NextStatus]_vars

SpecHttp == Init /\ [][NextHttp]_vars

SpecPaging == Init /\ [][NextPaging]_vars

SpecLookup == Init /\ [][NextLookup]_vars

SpecSync == Init /\ [][NextSync]_vars

SpecRate == Init /\ [][NextRate]_vars

SpecQueue == Init /\ [][NextQueue]_vars

SpecProcess == Init /\ [][NextProcess]_vars

SpecNormalize == Init /\ [][NextNormalize]_vars

SpecDefault == Init /\ [][NextDefault]_vars

SpecRecord == Init /\ [][NextRecord]_vars

SpecLimiter == Init /\ [][NextLimiter]_vars

SpecMtgStartup == Init /\ [][NextMtgStartup]_vars

SpecSrcSync == Init /\ [][NextSrcSync]_vars

SpecTimers == Init /\ [][NextTimers]_vars

----------------------------------------------------------------------------
(* Properties of the DataSourceManager *)

DoneCalls(op) == {c \in CallIds : calls[c].op = op /\ calls[c].pc = "done"}

\* C1: fetchById without a sourceId probes the registered adapters one at a
\* time in registration order, skipping none; every adapter probed before the
\* last one missed or threw; a hit ends the probe and is returned with its
\* source; null is returned only after every registered adapter missed or threw.
C1_SequentialFirstMatch ==
    /\ \A c \in CallIds :
        calls[c].pc = "probeWait" =>
            /\ \A i \in 1..Len(calls[c].log) :
                  calls[c].log[i].out # "hit" /\ calls[c].log[i].pos < calls[c].cur
    /\ \A c \in DoneCalls("fetchById") :
        calls[c].sid = NoSource =>
            LET log == calls[c].log
                n == Len(log)
            IN  /\ \A i, j \in 1..n : i < j => log[i].pos < log[j].pos
                /\ \A i \in 1..(n - 1) : log[i].out \in {"miss", "throw"}
                /\ calls[c].unprobed = {}
                /\ calls[c].res.kind \in {"item", "null"}
                /\ calls[c].res.kind = "item" =>
                      n > 0 /\ log[n].out = "hit" /\ calls[c].res.source = log[n].src
                /\ calls[c].res.kind = "null" =>
                      \A i \in 1..n : log[i].out \in {"miss", "throw"}

\* C1 witness: A was registered before B; A missed, then B hit, and B is the source returned
C1_Witness ==
    \E c \in DoneCalls("fetchById") :
        /\ calls[c].sid = NoSource
        /\ Len(calls[c].log) = 2
        /\ calls[c].log[1].src = "A" /\ calls[c].log[1].out = "miss"
        /\ calls[c].log[2].src = "B" /\ calls[c].log[2].out = "hit"
        /\ calls[c].res.kind = "item" /\ calls[c].res.source = "B"

\* C2: fetch without a sourceId returns one entry per source it fanned out to
\* and never fails as a whole: the entry of an adapter that threw has empty
\* data, hasMore false and an error, every other entry is what its adapter returned.
C2_FanOutIsolation ==
    \A c \in DoneCalls("fetch") :
        calls[c].sid = NoSource =>
            /\ calls[c].res.kind = "list"
            /\ Len(calls[c].res.list) = Len(calls[c].targets)
            /\ \A i \in 1..Len(calls[c].targets) :
                LET e == calls[c].res.list[i]
                    o == calls[c].outs[i]
                IN  IF o.threw
                    THEN e.data = <<>> /\ ~e.hasMore /\ e.error /\ e.source = calls[c].targets[i]
                    ELSE e = o.value

\* C2 witness: a fan-out over [A, B] in which B threw and A returned a record
C2_Witness ==
    \E c \in DoneCalls("fetch") :
        /\ calls[c].sid = NoSource
        /\ calls[c].targets = <<"A", "B">>
        /\ calls[c].outs[2].threw
        /\ ~calls[c].outs[1].threw /\ calls[c].outs[1].value.data = <<"x">>
        /\ Len(calls[c].res.list) = 2

C3_SingleInitialization ==
    /\ Cardinality({c \in CallIds : calls[c].pc = "initWait"}) <= 1
    /\ \A i \in LivePositions : entries[i].inits <= 1

C11_RegisterSource ==
    reg.id # NoSource =>
        /\ reg.hasAfter /\ reg.initsAfter = 0
        /\ reg.sizeBefore = 0 => reg.defaultAfter = reg.id
        /\ reg.hadBefore =>
              /\ reg.sizeAfter = reg.sizeBefore
              /\ (reg.setAsDefault \/ reg.sizeAfter = 1) => reg.defaultAfter = reg.id
              /\ (~reg.setAsDefault /\ reg.sizeAfter # 1) => reg.defaultAfter = reg.defaultBefore
        /\ (~reg.hadBefore /\ reg.sizeBefore > 0) =>
              /\ reg.sizeAfter = reg.sizeBefore + 1
              /\ reg.defaultAfter = (IF reg.setAsDefault THEN reg.id ELSE reg.defaultBefore)

\* C11 witness: an initialized adapter, not the default, re-registered with
\* setAsDefault false next to another source
C11_Witness ==
    /\ reg.id # NoSource /\ reg.hadBefore /\ ~reg.setAsDefault
    /\ reg.sizeBefore = 2 /\ reg.initsBefore > 0
    /\ reg.defaultBefore \notin {reg.id, NoSource}

\* C12: close() invokes close() on every adapter registered when it is called,
\* a rejected adapter close() neither rejects close() nor keeps the other
\* adapters from being closed, and at the step where close() completes the
\* registry is empty, there is no default source and initialized is false.
C12_CloseAll ==
    /\ [](\A c \in DoneCalls("close") : calls[c].res.kind = "void")
    /\ [][\A c \in CallIds :
            /\ (calls'[c].op = "close" /\ calls'[c].pc = "closeAllWait" /\ calls[c].pc # "closeAllWait")
                  => calls'[c].targets = SourceList(entries)
            /\ (calls[c].pc = "closeAllWait" /\ calls'[c].pc = "done")
                  => /\ Size(entries') = 0
                     /\ defaultSource' = NoSource
                     /\ initialized' = FALSE
                     /\ Len(calls'[c].outs) = Len(calls[c].targets)]_vars

\* C12 witness: a completed close() of two adapters, the first of which failed to close
C12_Witness ==
    \E c \in DoneCalls("close") :
        /\ Len(calls[c].targets) = 2
        /\ calls[c].outs[1] /\ ~calls[c].outs[2]
        /\ calls[c].res.kind = "void"

\* C13: getStatus() never throws and returns one entry per source registered
\* when it is called, in Map order and carrying the source id: the adapter's
\* status, or 'error' when the adapter's getStatus() threw; the result reports
\* the default source id current at the step where getStatus() completes.
C13_StatusPerSource ==
    /\ [](\A c \in DoneCalls("getStatus") :
            /\ calls[c].res.kind = "status"
            /\ Len(calls[c].res.list) = Len(calls[c].targets)
            /\ \A i \in 1..Len(calls[c].targets) :
                  /\ calls[c].res.list[i].id = calls[c].targets[i]
                  /\ calls[c].res.list[i].status =
                        (IF calls[c].outs[i] = "throw" THEN "error" ELSE calls[c].outs[i]))
    /\ [][\A c \in CallIds :
            /\ (calls'[c].op = "getStatus" /\ calls'[c].pc = "statusWait" /\ calls[c].pc # "statusWait")
                  => calls'[c].targets = SourceList(entries)
            /\ (calls[c].pc = "statusWait" /\ calls'[c].pc = "done")
                  => calls'[c].res.source = defaultSource']_vars

\* C13 witness: a completed getStatus() over two sources, one of which threw
C13_Witness ==
    \E c \in DoneCalls("getStatus") :
        /\ Len(calls[c].targets) = 2
        /\ calls[c].outs[1] = "throw" /\ calls[c].outs[2] = "ok"
        /\ calls[c].res.kind = "status" /\ calls[c].res.source # NoSource

----------------------------------------------------------------------------
(* Properties of the adapters' HTTP clients *)

AllStatuses(st) == http.statuses # <<>> /\ \A i \in 1..Len(http.statuses) : http.statuses[i] = st

\* C6: an authenticating adapter (eBay, CardTrader) answered 401 re-authenticates
\* and re-sends the request exactly once: against a provider that always
\* answers 401 the request is sent at most twice, and it fails after exactly
\* two sends when re-authentication itself succeeded.
C6_ReauthRetryOnce ==
    (http.client \in {"ebay", "cardtrader"} /\ AllStatuses(401)) =>
        /\ http.sends <= 2
        /\ (http.pc = "rejected" /\ ~http.authFailed) => http.sends = 2

\* C7: a 429 answer is retried once after the signaled delay and a second 429
\* is propagated: against a provider that always answers 429 the request is
\* sent at most twice, and it fails after exactly two sends.
C7_RateLimitRetryOnce ==
    AllStatuses(429) =>
        /\ http.sends <= 2
        /\ http.pc = "rejected" => http.sends = 2

----------------------------------------------------------------------------
(* Properties of the adapters' fetch, fetchById and fetchBatch *)

\* C4: for every adapter and window, hasMore holds exactly when
\* offset + (number of records returned) < total.
C4_HasMoreConsistent ==
    page.adapter # "none" => (page.hasMore <=> (page.offset + page.returned < page.total))

\* C8: fetchBatch over N ids returns at most N records and no null placeholder.
C8_BatchAtMostN ==
    lookup.op = "fetchBatch" =>
        /\ lookup.kind = "list"
        /\ Len(lookup.items) <= Len(lookup.ids)
        /\ \A i \in 1..Len(lookup.items) : lookup.items[i] # NullItem

\* C9: a one-by-one fetchBatch (eBay, CardTrader) never aborts on a failed
\* item and returns the ids whose lookup succeeded; a fetchBatch on a bulk
\* endpoint (Scryfall, MTGJSON) whose bulk call failed ends in an error.
C9_BatchFailureHandling ==
    lookup.op = "fetchBatch" =>
        /\ lookup.adapter \in {"ebay", "cardtrader"} =>
              lookup.kind = "list" /\ lookup.items = lookup.okIds
        /\ (lookup.adapter \in {"scryfall", "mtgjson"} /\ lookup.failed) =>
              lookup.kind = "error"

\* C10: a by-id lookup (fetchById, getCardById) returns null exactly when the
\* provider reported not-found, and every other failure reaches the caller as
\* an error, never as a null result.
C10_NullIffNotFound ==
    lookup.op \in {"fetchById", "getCardById"} =>
        /\ lookup.kind = "null" <=> lookup.notFound
        /\ lookup.failed => lookup.kind = "error"

----------------------------------------------------------------------------
(* Properties of the DataAcquisitionService and its queue *)

\* C15: a syncSource(sourceId, force = false) that finds its source present
\* and disabled returns false in the same step, adding no job and leaving the
\* source table (lastSync included) as it is; every job in the queue was
\* added by a call that found its source enabled or was forced.
C15_DisabledNotSynced ==
    /\ [](\A j \in 1..Len(jobs) : jobs[j].forced \/ jobs[j].enabledAtCall)
    /\ [][\A t \in SyncIds :
            (/\ syncs[t].pc \in {"idle", "done"} /\ syncs'[t].pc # "idle" /\ syncs'[t] # syncs[t]
             /\ activeSources[syncs'[t].sid].present
             /\ ~activeSources[syncs'[t].sid].enabled
             /\ ~syncs'[t].force)
            => /\ syncs'[t].pc = "done" /\ syncs'[t].res = "false"
               /\ jobs' = jobs
               /\ activeSources' = activeSources]_vars

\* C15 witness: a source that was synced while enabled and disabled afterwards
\* is asked to sync without force
C15_Witness ==
    \E t \in SyncIds :
        /\ syncs[t].pc = "done" /\ syncs[t].knownAtCall /\ ~syncs[t].enabledAtCall
        /\ ~syncs[t].force /\ syncs[t].res = "false"
        /\ activeSources[syncs[t].sid].present /\ ~activeSources[syncs[t].sid].enabled
        /\ activeSources[syncs[t].sid].lastSync > 0

\* C16: within one rate-limit window no more jobs are enqueued for a source
\* than the requests budget it was configured with throughout the window.
C16_BudgetRespected ==
    \A s \in SvcIds :
        (activeSources[s].present /\ activeSources[s].requests # Absent)
            => windowCount[s] <= activeSources[s].requests

\* C17: a failing job is attempted at most Attempts times with delays of
\* BackoffDelay doubling per attempt, and a job that failed its last attempt
\* stays in the queue in state failed.
C17_FailedJobKept ==
    \A j \in 1..Len(jobs) :
        /\ jobs[j].attemptsMade <= Attempts
        /\ \A k \in 1..Len(jobs[j].delays) : jobs[j].delays[k] = BackoffDelay * Pow2(k - 1)
        /\ jobs[j].ended = "failed" => jobs[j].state = "failed"

----------------------------------------------------------------------------
(* Properties of the DataProcessingService *)

ValidateLog == SelectSeq(proc.log, LAMBDA e : e.stage = "validate")
TransformLog == SelectSeq(proc.log, LAMBDA e : e.stage = "transform")

RECURSIVE AllViolations(_)
AllViolations(entries_) ==
    IF entries_ = <<>> THEN <<>>
    ELSE Violations(Head(entries_).name, Head(entries_).out) \o AllViolations(Tail(entries_))

\* a processRecord call that has gone through validation
Validated == proc.pc = "done" /\ ValidateLog # <<>>

\* C18: a record that went through validation had every registered rule
\* evaluated, in order, whatever the earlier rules reported; the violations
\* and the exceptions of all rules are accumulated; a record with a violation
\* is rejected with status 400, the error carries the whole list, and the
\* list is attached to the failed record.
C18_AllViolationsAttached ==
    Validated =>
        /\ [k \in 1..Len(ValidateLog) |-> ValidateLog[k].name] = proc.vs
        /\ proc.errors = AllViolations(ValidateLog)
        /\ proc.errors # <<>> =>
              /\ proc.res = "rejected" /\ proc.err.statusCode = 400 /\ proc.status = "failed"
              /\ \/ proc.err.details = Payload(proc.errors)
                 \/ proc.err.isOperational = Payload(proc.errors)
              /\ proc.metaDetails = Payload(proc.errors)

\* C19: the stages run in the order transformations, validation, enrichment,
\* normalization, each enabled stage over all its items before a later one
\* starts; a failing transformation ends the call with an error naming it;
\* and a failed stage is the last thing run on the record.
C19_StageOrder ==
    /\ \A a, b \in 1..Len(proc.log) :
          a < b => Rank(proc.log[a].stage) <= Rank(proc.log[b].stage)
    /\ \A a \in 1..Len(proc.log) : proc.opts[proc.log[a].stage]
    /\ (\E a \in 1..Len(proc.log) : Rank(proc.log[a].stage) > Rank("transform"))
          => (proc.opts.transform
                => [k \in 1..Len(TransformLog) |-> TransformLog[k].name] = proc.ts)
    /\ (\E a \in 1..Len(proc.log) : Rank(proc.log[a].stage) > Rank("validate"))
          => (proc.opts.validate
                => /\ [k \in 1..Len(ValidateLog) |-> ValidateLog[k].name] = proc.vs
                   /\ proc.errors = <<>>)
    /\ \A a \in 1..Len(proc.log) :
          (proc.log[a].stage = "transform" /\ proc.log[a].out = "throw")
            => /\ a = Len(proc.log)
               /\ proc.pc = "done" /\ proc.res = "rejected" /\ proc.status = "failed"
               /\ proc.err.message = <<"Error applying transformation", proc.log[a].name>>
               /\ proc.metaError = proc.err.message
    /\ (proc.pc = "done" /\ proc.res = "rejected" /\ proc.err.statusCode = 400)
          => proc.log[Len(proc.log)].stage = "validate"
    /\ (proc.pc = "done" /\ proc.res = "resolved")
          => /\ proc.status = "processed"
             /\ \A st \in {"enrich", "normalize"} :
                   proc.opts[st] <=> \E a \in 1..Len(proc.log) : proc.log[a].stage = st

\* C19 witness: the second transformation failed after the first succeeded,
\* with every stage enabled
C19_Witness ==
    /\ proc.pc = "done" /\ proc.opts = DefaultOptions
    /\ Len(proc.log) = 2 /\ proc.log[1].out = "ok" /\ proc.log[2].out = "throw"
    /\ proc.log[2].stage = "transform"

\* a value that is neither missing nor the empty string
NonEmpty(v) == v \notin {"absent", "empty"}

\* C20: enrichData followed by normalizeData applied to their own output
\* returns it unchanged, and enrichData leaves every field that holds a
\* non-empty value as it is.
C20_EnrichNormalizeIdempotent ==
    /\ (norm.stage = "normalized" /\ norm.step = 4) => norm.cur = norm.first
    /\ norm.stage = "enriched" =>
          /\ NonEmpty(norm.before.id) => norm.cur.id = norm.before.id
          /\ NonEmpty(norm.before.createdAt) => norm.cur.createdAt = norm.before.createdAt
          /\ NonEmpty(norm.before.updatedAt) => norm.cur.updatedAt = norm.before.updatedAt
          /\ NonEmpty(norm.before.metadata.processedAt)
                => norm.cur.metadata.processedAt = norm.before.metadata.processedAt


----------------------------------------------------------------------------
(* The registry during close() *)

\* C25: at the step where a close() call clears the registry, every adapter
\* then in the registry is one that this close() call invoked close() on, so
\* no adapter registered while close() was awaiting is dropped unclosed.
C25_ClearedOnlyIfClosed ==
    [][\A c \in CallIds :
          (calls[c].pc = "closeAllWait" /\ calls'[c].pc = "done")
              => \A i \in LivePositions :
                    \E k \in 1..Len(calls[c].targets) : calls[c].targets[k] = entries[i].id]_vars

----------------------------------------------------------------------------
(* The default source *)

\* C27: in every reachable state the default source id is none exactly when
\* the registry is empty and otherwise names a registered source; and a
\* setDefaultSource call answers true exactly for a registered id, a call
\* with an unregistered id leaving the default as it was.
C27_DefaultRegistered ==
    /\ []((defaultSource = NoSource <=> Size(entries) = 0)
          /\ (defaultSource # NoSource => Has(defaultSource)))
    /\ [][\A c \in CallIds :
            (calls'[c].op = "setDefaultSource" /\ calls'[c] # calls[c])
               => IF \E i \in LivePositions : entries[i].id = calls'[c].sid
                  THEN calls'[c].res.kind = "true" /\ defaultSource' = calls'[c].sid
                  ELSE calls'[c].res.kind = "false" /\ defaultSource' = defaultSource]_vars

\* C27 witness: setDefaultSource was refused for an id that is not registered
\* while another source is registered and is the default
C27_Witness ==
    \E c \in DoneCalls("setDefaultSource") :
        /\ calls[c].res.kind = "false"
        /\ ~Has(calls[c].sid)
        /\ Size(entries) = 1
        /\ Has(defaultSource)

----------------------------------------------------------------------------
(* Delegation to initialized adapters *)

\* C28: at the step where fetch() invokes the adapters' fetch(), every adapter
\* it invokes has had its initialize() invoked by the manager.
C28_DelegatesOnlyToInitialized ==
    [][\A c \in CallIds :
          (calls[c].pc = "ready" /\ calls'[c].pc = "fetchWait")
             => \A k \in 1..Len(calls'[c].targets) :
                    InitsOf(entries, calls'[c].targets[k]) >= 1]_vars

----------------------------------------------------------------------------
(* The status of a DataRecord *)

StatusMoves ==
    {<<"pending", "processing">>, <<"processing", "processed">>, <<"processing", "failed">>}

\* the statuses a record went through in its last processRecord call, from the
\* one it had when the call began
StatusPath == <<record.before>> \o record.writes

\* C21: a record's status only moves pending -> processing -> processed or
\* pending -> processing -> failed, so a terminal status is never changed
\* again; and a processRecord that rejects leaves the record failed with
\* metadata.error set, the acquisition service having handed the failed record
\* to saveRecord.
C21_StatusLifecycle ==
    /\ \A k \in 1..(Len(StatusPath) - 1) : <<StatusPath[k], StatusPath[k + 1]>> \in StatusMoves
    /\ record.res = "rejected"
          => /\ record.status = "failed" /\ record.error
             /\ record.saved # <<>> /\ record.saved[Len(record.saved)] = "failed"
    /\ proc.res = "rejected" => proc.status = "failed" /\ proc.metaError # <<>>

----------------------------------------------------------------------------
(* Access tokens *)

\* C22: a request of an OAuth adapter (CardTrader, eBay) is in flight only
\* with a token that is held and has more than the 60 s margin left.
C22_TokenFreshAtSend ==
    (http.pc = "inflight" /\ http.client \in {"cardtrader", "ebay"}) => http.tokenFresh

----------------------------------------------------------------------------
(* The request rate *)

\* the requests sent in the window of perSeconds seconds that starts at tick w
SentInWindow(w) ==
    {k \in 1..Len(limiter.sent) :
        /\ w <= limiter.sent[k]
        /\ limiter.sent[k] < w + limiter.rateLimit.perSeconds * TicksPerSecond}

\* C23: in every window of perSeconds seconds at most `requests` requests are
\* sent to the provider.
C23_RateWithinBudget ==
    \A w \in 0..MaxTime : Cardinality(SentInWindow(w)) <= limiter.rateLimit.requests

----------------------------------------------------------------------------
(* Startup of the MTG sources *)

MtgHas(id) == \E k \in 1..Len(mtg.sources) : mtg.sources[k] = id

\* C24: when CardTrader is enabled without its credentials, startup ends
\* successfully (MTGService marked initialized), CardTrader is not registered
\* and every other enabled source is.
C24_MissingCredentialsSkipped ==
    (mtg.pc \in {"ready", "failed"} /\ mtg.cfg.cardtrader = "nocreds")
        => /\ mtg.pc = "ready"
           /\ ~MtgHas("cardtrader")
           /\ mtg.cfg.scryfall => MtgHas("scryfall")
           /\ mtg.cfg.mtgjson => MtgHas("mtgjson")
           /\ mtg.via = "service" => mtg.svcInitialized

\* C26: once the sources of a manager constructed with config.defaultSource = X
\* are initialized and X is among them, the default source is X.
C26_ConfiguredDefaultHonoured ==
    (mtg.pc = "ready" /\ mtg.via = "constructor" /\ mtg.cfg.defaultSource # NoSource
        /\ MtgHas(mtg.cfg.defaultSource))
        => mtg.defaultSourceId = mtg.cfg.defaultSource

----------------------------------------------------------------------------
(* One full sync per source *)

\* C29: for every MTG source at most one syncAllData is running, and the
\* in-progress flag is clear whenever none is.
C29_OneSyncPerSource ==
    \A s \in MtgSources :
        /\ srcSync.running[s] <= 1
        /\ srcSync.running[s] = 0 => ~srcSync.syncInProgress[s]

----------------------------------------------------------------------------
(* Periodic sync timers *)

\* C30: every source of the acquisition service that is enabled and has a
\* syncFrequency has exactly one live timer and every other source id has
\* none; the MTG manager has at most one live timer, and none when it holds
\* no timer handle.
C30_OneTimerPerSource ==
    /\ \A s \in SvcIds :
          sched.timers[s] =
              IF activeSources[s].present /\ activeSources[s].enabled /\ sched.freq[s] THEN 1 ELSE 0
    /\ mtg.timers <= 1
    /\ ~mtg.syncTimer => mtg.timers = 0

====
